---- MODULE Spec2Model ----
(***************************************************************************)
(* A model of the exact-arithmetic core of math-plot: class Rational and   *)
(* class RationalTuple (rational.js, latest revision).                     *)
(*                                                                         *)
(* JavaScript values are tagged records, so that the typeof tests of the   *)
(* code can be evaluated:                                                  *)
(*   t = "int"   an integral number p                                      *)
(*   t = "frac"  a non-integral number whose value is p/q (q > 1)          *)
(*   t = "inf"   +Infinity or -Infinity                                    *)
(*   t = "nan"   NaN                                                       *)
(*   t = "str"   a string, s is its sequence of characters                 *)
(* A Rational object is the record of its four fields.  The object whose   *)
(* numerator and denominator are both NaN (simplify() dividing by a gcd of *)
(* 0) is written numerator = 0, denominator = 0: no other object has both  *)
(* fields zero.                                                            *)
(***************************************************************************)
EXTENDS Integers, Sequences, FiniteSets, TLC

VARIABLES pc, x, y, args, op, res

vars == <<pc, x, y, args, op, res>>

\* ---------------------------------------------------------------- bounds
\* integers handed to the constructor range over -MaxInt..MaxInt
MaxInt == 3
\* symbol factors handed to the constructor, and kept by Store, range over
\* -MaxFactor..MaxFactor
MaxFactor == 1
\* strings handed to the constructor have at most MaxStrLen characters
MaxStrLen == 4

\* ------------------------------------------------------------- JS values
JSInt(n) == [t |-> "int", p |-> n, q |-> 1, s |-> <<>>]
JSFrac(n, d) == [t |-> "frac", p |-> n, q |-> d, s |-> <<>>]
JSInf == [t |-> "inf", p |-> 0, q |-> 1, s |-> <<>>]
JSNaN == [t |-> "nan", p |-> 0, q |-> 1, s |-> <<>>]
JSStr(str) == [t |-> "str", p |-> 0, q |-> 1, s |-> str]

Abs(n) == IF n < 0 THEN -n ELSE n

\* JavaScript's a % b on integers: the sign of the dividend, b # 0
JSRem(a, b) == IF a >= 0 THEN a % Abs(b) ELSE -((-a) % Abs(b))

\* a / g when g divides a
Quot(a, g) == IF g > 0 THEN a \div g ELSE -(a \div (-g))

RECURSIVE Pow(_, _)
Pow(b, k) == IF k = 0 THEN 1 ELSE b * Pow(b, k - 1)

\* --------------------------------------------------------------- Rational
Rat(n, d, pf, ef) ==
    [numerator |-> n, denominator |-> d, piFactor |-> pf, eFactor |-> ef]

\* both numerator and denominator are NaN
IsNaN(r) == r.numerator = 0 /\ r.denominator = 0

NoRational == Rat(0, 1, 0, 0)

Outcome(e, r) == [err |-> e, val |-> r, bool |-> FALSE]
Throw(e) == Outcome(e, NoRational)
ReturnBool(b) == [err |-> "none", val |-> NoRational, bool |-> b]

\* Rational._gcd: Euclid with JavaScript's remainder; !b holds for 0
RECURSIVE _gcd(_, _)
_gcd(a, b) == IF b = 0 THEN a ELSE _gcd(b, JSRem(a, b))

\* simplify without the normalisation of the denominator's sign
divideKeepsSign(r, gcd) ==
    IF gcd = 0
    THEN Rat(0, 0, r.piFactor, r.eFactor)
    ELSE Rat(Quot(r.numerator, gcd), Quot(r.denominator, gcd),
             r.piFactor, r.eFactor)

\* Rational.simplify, the gcd computed: both fields are divided by it and
\* the sign is moved to the numerator
divideByGcd(r, gcd) ==
    IF gcd = 0
    THEN Rat(0, 0, r.piFactor, r.eFactor)      \* 0/0 is NaN in both fields
    ELSE IF Quot(r.denominator, gcd) < 0
    THEN Rat(-Quot(r.numerator, gcd), Abs(Quot(r.denominator, gcd)),
             r.piFactor, r.eFactor)
    ELSE Rat(Quot(r.numerator, gcd), Quot(r.denominator, gcd),
             r.piFactor, r.eFactor)

\* Rational.simplify
simplify(r) == divideByGcd(r, _gcd(r.numerator, r.denominator))

\* ---------------------------------------------------------------- strings
Digits == {"0", "1", "2"}
Alphabet == Digits \cup {"-", "p", "i", "e", ".", "/"}

DigitVal(c) == CASE c = "0" -> 0 [] c = "1" -> 1 [] c = "2" -> 2

\* parseInt of a run of digits
RECURSIVE parseInt(_)
parseInt(str) ==
    IF str = <<>> THEN 0
    ELSE 10 * parseInt(SubSeq(str, 1, Len(str) - 1)) + DigitVal(str[Len(str)])

\* the length of the longest run of digits that str starts with
RECURSIVE DigitRun(_)
DigitRun(str) ==
    IF str # <<>> /\ Head(str) \in Digits THEN 1 + DigitRun(Tail(str)) ELSE 0

\* numerator.match(/^(.+)\/(.+)$/): the position of the '/' the greedy first
\* group stops at, 0 when the string does not match
SlashMatch(str) ==
    LET cand == {i \in 2..(Len(str) - 1) : str[i] = "/"} IN
    IF cand = {} THEN 0 ELSE CHOOSE i \in cand : \A j \in cand : j <= i

ParseError == [err |-> "InvalidValue", mult |-> 0, pi |-> 0, e |-> 0]

\* parseGroups dropping the sign group
parseGroupsUnsigned(neg, multStr, symbolStr) ==
    [err |-> "none",
     mult |-> IF multStr # <<>> THEN parseInt(multStr) ELSE 1,
     pi |-> IF symbolStr = <<"p", "i">> THEN 1 ELSE 0,
     e |-> IF symbolStr = <<"e">> THEN 1 ELSE 0]

\* what _parseInput returns for the groups of a match: the sign, the digits
\* and the symbol
parseGroups(neg, multStr, symbolStr) ==
    [err |-> "none",
     mult |-> (IF neg THEN -1 ELSE 1)
              * (IF multStr # <<>> THEN parseInt(multStr) ELSE 1),
     pi |-> IF symbolStr = <<"p", "i">> THEN 1 ELSE 0,
     e |-> IF symbolStr = <<"e">> THEN 1 ELSE 0]

\* /^(-)?([0-9]+)?(pi|e)?$/ on what follows the optional sign
parseUnsigned(neg, s1) ==
    IF SubSeq(s1, DigitRun(s1) + 1, Len(s1)) \in {<<>>, <<"p", "i">>, <<"e">>}
    THEN parseGroups(neg, SubSeq(s1, 1, DigitRun(s1)),
                     SubSeq(s1, DigitRun(s1) + 1, Len(s1)))
    ELSE ParseError

\* Rational._parseInput
_parseInput(number) ==
    IF number.t \in {"int", "frac", "inf", "nan"}
    THEN \* assert(number === parseInt(number))
         IF number.t = "int"
         THEN [err |-> "none", mult |-> number.p, pi |-> 0, e |-> 0]
         ELSE ParseError
    ELSE IF number.s = <<>> THEN ParseError
    ELSE IF Head(number.s) = "-" THEN parseUnsigned(TRUE, Tail(number.s))
    ELSE parseUnsigned(FALSE, number.s)

\* ----------------------------------------------------- the float branch
PRECISION == 1000000000

\* one more decimal digit of rem/q
DecStep(h, q) ==
    [v |-> 10 * h.v + ((10 * h.rem) \div q), rem |-> (10 * h.rem) % q]

\* k decimal digits of rem/q after the point, and what is left over
RECURSIVE DecDigits(_, _, _)
DecDigits(rem, q, k) ==
    IF k = 0 THEN [v |-> 0, rem |-> rem]
    ELSE DecStep(DecDigits(rem, q, k - 1), q)

\* the nearest integer to int + h.v/10^9 + (h.rem/q)/10^9, a tie going up
RoundHalfUp(negative, int, h, q) ==
    IF negative
    THEN -(int * PRECISION + h.v + (IF 2 * h.rem > q THEN 1 ELSE 0))
    ELSE int * PRECISION + h.v + (IF 2 * h.rem >= q THEN 1 ELSE 0)

\* Math.round(numerator * 1000000000) for numerator = p/q
Round9(p, q) ==
    RoundHalfUp(p < 0, Abs(p) \div q, DecDigits(Abs(p) % q, q, 9), q)

\* the number of zeros a non-zero integer ends with
RECURSIVE TrailingZeros(_)
TrailingZeros(n) == IF n % 10 = 0 THEN 1 + TrailingZeros(n \div 10) ELSE 0

\* rounded = R/10^9 is a double exactly when 5^9 divides R; the product
\* rounded * mult is then exact
ExactDouble(R) == R % 1953125 = 0

NumDen(n, d) == [numerator |-> n, denominator |-> d]

\* Lines 86-97 of the constructor: R is Math.round(numerator * 1000000000).
\* fpExact says whether the floating-point product rounded * mult comes out
\* as the integer it stands for; it does when rounded is an exact double.
FromRounded(R, denominator, fpExact) ==
    IF R % PRECISION = 0
    THEN \* within 1e-9 of an integer
         NumDen(JSInt(R \div PRECISION), denominator)
    ELSE IF Abs(R) < 1000
    THEN \* below 1e-6 toString() uses the exponent notation: what is read
         \* off it is not an integer
         NumDen(JSFrac(R, PRECISION), denominator)
    ELSE IF ExactDouble(R) \/ fpExact
    THEN \* mantissaLength = 9 - TrailingZeros(R), mult = 10^mantissaLength
         NumDen(JSInt(Quot(R, Pow(10, TrailingZeros(R)))),
                JSInt(Pow(10, 9 - TrailingZeros(R))))
    ELSE NumDen(JSFrac(R, PRECISION), JSInt(Pow(10, 9 - TrailingZeros(R))))

\* Lines 83-98 of the constructor: a numerator that is a non-integral number
\* or an infinity is replaced, and the denominator with it
FloatBranch(numerator, denominator, fpExact) ==
    IF numerator.t = "inf"
    THEN NumDen(JSInf, denominator)       \* "Infinity" has no '.'
    ELSE IF numerator.t = "frac"
    THEN FromRounded(Round9(numerator.p, numerator.q), denominator, fpExact)
    ELSE NumDen(numerator, denominator)

\* FromParsed adding the factors of the denominator
FromParsedAddsDenominator(num, denom, piFactor, eFactor) ==
    IF num.err # "none" THEN Throw(num.err)
    ELSE IF denom.err # "none" THEN Throw(denom.err)
    ELSE Outcome("none",
                 simplify(Rat(num.mult, denom.mult,
                              piFactor + num.pi + denom.pi,
                              eFactor + num.e + denom.e)))

\* Lines 100-110 of the constructor, both inputs parsed
FromParsed(num, denom, piFactor, eFactor) ==
    IF num.err # "none" THEN Throw(num.err)
    ELSE IF denom.err # "none" THEN Throw(denom.err)
    ELSE Outcome("none",
                 simplify(Rat(num.mult, denom.mult,
                              piFactor + num.pi - denom.pi,
                              eFactor + num.e - denom.e)))

FromNumDen(nd, piFactor, eFactor) ==
    FromParsed(_parseInput(nd.numerator), _parseInput(nd.denominator),
               piFactor, eFactor)

\* Lines 75-81 of the constructor: slash is the position of the '/' of an
\* "a/b" string, or 0
SplitAt(slash, numerator, denominator) ==
    IF slash > 0
    THEN NumDen(JSStr(SubSeq(numerator.s, 1, slash - 1)),
                JSStr(SubSeq(numerator.s, slash + 1, Len(numerator.s))))
    ELSE NumDen(numerator, denominator)

FromSplit(nd, piFactor, eFactor, fpExact) ==
    FromNumDen(FloatBranch(nd.numerator, nd.denominator, fpExact),
               piFactor, eFactor)

\* Rational.constructor
Rational(numerator, denominator, piFactor, eFactor, fpExact) ==
    FromSplit(SplitAt(IF numerator.t = "str" THEN SlashMatch(numerator.s) ELSE 0,
                      numerator, denominator),
              piFactor, eFactor, fpExact)

\* ------------------------------------------------------------- operators
\* the argument `number` of a method: a Rational (inst) or a plain number
RationalArg(r) == [inst |-> TRUE, r |-> r, v |-> JSInt(0)]
NumberArg(v) == [inst |-> FALSE, r |-> NoRational, v |-> v]

\* if(!(number instanceof Rational)) number = new Rational(number)
Coerce(number) ==
    IF number.inst THEN Outcome("none", number.r)
    ELSE Rational(number.v, JSInt(1), 0, 0, TRUE)

\* a product or sum of fields: NaN as soon as one operand is NaN
Field(nan, n) == IF nan THEN JSNaN ELSE JSInt(n)

\* ret.simplify(); return ret
Simplified(ret) ==
    IF ret.err # "none" THEN ret ELSE Outcome("none", simplify(ret.val))

\* plus comparing the pi factors only
plusComparesPiOnly(this, n) ==
    IF this.piFactor # n.piFactor
    THEN Throw("IncompatibleSymbol")
    ELSE Simplified(Rational(
             Field(IsNaN(this) \/ IsNaN(n),
                   this.numerator * n.denominator
                   + n.numerator * this.denominator),
             Field(IsNaN(this) \/ IsNaN(n), this.denominator * n.denominator),
             this.piFactor, this.eFactor, TRUE))

\* Rational.plus, number a Rational
plusRational(this, n) ==
    IF this.piFactor # n.piFactor \/ this.eFactor # n.eFactor
    THEN Throw("IncompatibleSymbol")
    ELSE Simplified(Rational(
             Field(IsNaN(this) \/ IsNaN(n),
                   this.numerator * n.denominator
                   + n.numerator * this.denominator),
             Field(IsNaN(this) \/ IsNaN(n), this.denominator * n.denominator),
             this.piFactor, this.eFactor, TRUE))

\* Rational.minus, number a Rational
minusRational(this, n) ==
    IF this.piFactor # n.piFactor \/ this.eFactor # n.eFactor
    THEN Throw("IncompatibleSymbol")
    ELSE Simplified(Rational(
             Field(IsNaN(this) \/ IsNaN(n),
                   this.numerator * n.denominator
                   - n.numerator * this.denominator),
             Field(IsNaN(this) \/ IsNaN(n), this.denominator * n.denominator),
             this.piFactor, this.eFactor, TRUE))

\* the guard testing one order of the operands only
DifferentSymbolsOneWay(this, n) ==
    this.piFactor # 0 /\ n.eFactor # 0

\* the guard of times and divide
DifferentSymbols(this, n) ==
    \/ this.piFactor # 0 /\ n.eFactor # 0
    \/ this.eFactor # 0 /\ n.piFactor # 0

\* Rational.times, number a Rational
timesRational(this, n) ==
    IF DifferentSymbols(this, n) THEN Throw("IncompatibleSymbol")
    ELSE Simplified(Rational(
             Field(IsNaN(this) \/ IsNaN(n), this.numerator * n.numerator),
             Field(IsNaN(this) \/ IsNaN(n), this.denominator * n.denominator),
             this.piFactor + n.piFactor,
             this.eFactor + n.eFactor, TRUE))

\* divide adding the factors, as times does
divideAddsFactors(this, n) ==
    IF DifferentSymbols(this, n) THEN Throw("IncompatibleSymbol")
    ELSE Simplified(Rational(
             Field(IsNaN(this) \/ IsNaN(n), this.numerator * n.denominator),
             Field(IsNaN(this) \/ IsNaN(n), this.denominator * n.numerator),
             this.piFactor + n.piFactor,
             this.eFactor + n.eFactor, TRUE))

\* Rational.divide, number a Rational
divideRational(this, n) ==
    IF DifferentSymbols(this, n) THEN Throw("IncompatibleSymbol")
    ELSE Simplified(Rational(
             Field(IsNaN(this) \/ IsNaN(n), this.numerator * n.denominator),
             Field(IsNaN(this) \/ IsNaN(n), this.denominator * n.numerator),
             this.piFactor - n.piFactor,
             this.eFactor - n.eFactor, TRUE))

\* base ** k on numbers, k an integer; nan: the base is NaN
JSPow(base, k, nan) ==
    IF k = 0 THEN JSInt(1)
    ELSE IF nan THEN JSNaN
    ELSE IF k > 0 THEN JSInt(Pow(base, k))
    ELSE IF base = 0 THEN JSInf
    ELSE IF Abs(base) = 1 THEN JSInt(Pow(base, -k))
    ELSE IF Pow(base, -k) < 0 THEN JSFrac(-1, -Pow(base, -k))
    ELSE JSFrac(1, Pow(base, -k))

\* power testing the exponent's denominator only
powerChecksDenominatorOnly(this, n, fpExact) ==
    IF n.denominator # 1
    THEN Throw("UnsupportedOperation")
    ELSE Simplified(Rational(
             JSPow(this.numerator, n.numerator, IsNaN(this)),
             JSPow(this.denominator, n.numerator, IsNaN(this)),
             this.piFactor * n.numerator,
             this.eFactor * n.numerator, fpExact))

\* Rational.power, number a Rational
powerRational(this, n, fpExact) ==
    IF n.denominator # 1 \/ n.eFactor # 0 \/ n.piFactor # 0
    THEN Throw("UnsupportedOperation")
    ELSE Simplified(Rational(
             JSPow(this.numerator, n.numerator, IsNaN(this)),
             JSPow(this.denominator, n.numerator, IsNaN(this)),
             this.piFactor * n.numerator,
             this.eFactor * n.numerator, fpExact))

\* ret.numerator = Math.abs(ret.numerator); return ret
absNumerator(ret) ==
    IF ret.err # "none" THEN ret
    ELSE Outcome("none", [ret.val EXCEPT !.numerator = Abs(@)])

\* Rational.abs
abs(this) ==
    absNumerator(Simplified(Rational(
        Field(IsNaN(this), this.numerator),
        Field(IsNaN(this), this.denominator),
        this.piFactor, this.eFactor, TRUE)))

\* equal without the exception for a zero numerator
equalComparesAllFields(this, n) ==
    ReturnBool(/\ ~IsNaN(this) /\ ~IsNaN(n)
               /\ this.numerator = n.numerator
               /\ this.denominator = n.denominator
               /\ this.piFactor = n.piFactor
               /\ this.eFactor = n.eFactor)

\* Rational.equal, number a Rational; NaN == NaN is false
equalRational(this, n) ==
    ReturnBool(/\ ~IsNaN(this) /\ ~IsNaN(n)
               /\ this.numerator = n.numerator
               /\ this.denominator = n.denominator
               /\ \/ this.piFactor = n.piFactor /\ this.eFactor = n.eFactor
                  \/ this.numerator = 0)

\* the methods, after the coercion of their argument (c is its outcome)
plusCoerced(this, c) == IF c.err # "none" THEN c ELSE plusRational(this, c.val)
minusCoerced(this, c) == IF c.err # "none" THEN c ELSE minusRational(this, c.val)
timesCoerced(this, c) == IF c.err # "none" THEN c ELSE timesRational(this, c.val)
divideCoerced(this, c) == IF c.err # "none" THEN c ELSE divideRational(this, c.val)
powerCoerced(this, c, fpExact) ==
    IF c.err # "none" THEN c ELSE powerRational(this, c.val, fpExact)
equalCoerced(this, c) == IF c.err # "none" THEN c ELSE equalRational(this, c.val)

plus(this, number) == plusCoerced(this, Coerce(number))
minus(this, number) == minusCoerced(this, Coerce(number))
times(this, number) == timesCoerced(this, Coerce(number))
divide(this, number) == divideCoerced(this, Coerce(number))
power(this, number, fpExact) == powerCoerced(this, Coerce(number), fpExact)
equal(this, number) == equalCoerced(this, Coerce(number))

\* ------------------------------------------------------------ the client
\* A client of the class: it constructs a receiver x, constructs or picks
\* an argument y, calls a method of x on y, and may keep the result as the
\* next receiver.
IntInputs == (-MaxInt)..MaxInt
FactorInputs == (-MaxFactor)..MaxFactor

Args(n, d, pf, ef) ==
    [numerator |-> n, denominator |-> d, piFactor |-> pf, eFactor |-> ef]
NoArgs == Args(JSInt(0), JSInt(0), 0, 0)
NoArg == NumberArg(JSInt(0))
NoResult == Throw("none")

Init ==
    /\ pc = "new"
    /\ x = NoRational
    /\ y = NoArg
    /\ args = NoArgs
    /\ op = "none"
    /\ res = NoResult

\* new Rational(n, d, pf, ef)
Construct(n, d, pf, ef) ==
    /\ pc = "new"
    /\ res' = Rational(JSInt(n), JSInt(d), pf, ef, TRUE)
    /\ args' = Args(JSInt(n), JSInt(d), pf, ef)
    /\ op' = "construct"
    /\ pc' = "built"
    /\ UNCHANGED <<x, y>>

\* y = new Rational(n, d, pf, ef); integers are never rejected
ConstructArg(n, d, pf, ef) ==
    /\ pc = "arg"
    /\ LET r == Rational(JSInt(n), JSInt(d), pf, ef, TRUE) IN
       /\ r.err = "none"
       /\ y' = RationalArg(r.val)
    /\ pc' = "ready"
    /\ args' = NoArgs
    /\ op' = "none"
    /\ res' = NoResult
    /\ x' = x

\* y = n, a plain integer
PlainArg(n) ==
    /\ pc = "arg"
    /\ y' = NumberArg(JSInt(n))
    /\ pc' = "ready"
    /\ args' = NoArgs
    /\ op' = "none"
    /\ res' = NoResult
    /\ x' = x

Call(name, r) ==
    /\ pc = "ready"
    /\ op' = name
    /\ res' = r
    /\ pc' = "done"
    /\ UNCHANGED <<x, y, args>>

Plus == Call("plus", plus(x, y))
Minus == Call("minus", minus(x, y))
Times == Call("times", times(x, y))
Divide == Call("divide", divide(x, y))
Power == \E fpExact \in BOOLEAN : Call("power", power(x, y, fpExact))
AbsCall == Call("abs", abs(x))
Equal == Call("equal", equal(x, y))

\* what the constructor or the method returned becomes the receiver of the
\* next call
InBounds(r) ==
    /\ Abs(r.numerator) <= MaxInt
    /\ r.denominator <= MaxInt
    /\ Abs(r.piFactor) <= MaxFactor
    /\ Abs(r.eFactor) <= MaxFactor

Store ==
    /\ pc \in {"built", "done"}
    /\ op \in {"construct", "plus", "minus", "times", "divide", "power", "abs"}
    /\ res.err = "none"
    /\ InBounds(res.val)
    /\ x' = res.val
    /\ pc' = "arg"
    /\ y' = NoArg
    /\ args' = NoArgs
    /\ op' = "none"
    /\ res' = NoResult

Next ==
    \/ pc = "new" /\ \E n, d \in IntInputs :
           \E pf, ef \in FactorInputs : Construct(n, d, pf, ef)
    \/ pc = "arg" /\ \E n, d \in IntInputs :
           \E pf, ef \in FactorInputs : ConstructArg(n, d, pf, ef)
    \/ pc = "arg" /\ \E n \in IntInputs : PlainArg(n)
    \/ Plus
    \/ Minus
    \/ Times
    \/ Divide
    \/ Power
    \/ AbsCall
    \/ Equal
    \/ Store

Spec == Init /\ [][Next]_vars

\* ------------------------------------------------- construction from text
StringsUpTo(n) == UNION {[1..k -> Alphabet] : k \in 0..n}

\* new Rational(str)
ConstructString(str) ==
    /\ pc = "new"
    /\ res' = Rational(JSStr(str), JSInt(1), 0, 0, TRUE)
    /\ args' = Args(JSStr(str), JSInt(1), 0, 0)
    /\ op' = "construct"
    /\ pc' = "built"
    /\ UNCHANGED <<x, y>>

\* new Rational(str, den): a numerator token with a denominator token
ConstructTokens(str, den) ==
    /\ pc = "new"
    /\ res' = Rational(JSStr(str), JSStr(den), 0, 0, TRUE)
    /\ args' = Args(JSStr(str), JSStr(den), 0, 0)
    /\ op' = "construct"
    /\ pc' = "built"
    /\ UNCHANGED <<x, y>>

NextStr ==
    \/ pc = "new" /\ \E str \in StringsUpTo(MaxStrLen) : ConstructString(str)
    \/ pc = "new" /\ \E str \in StringsUpTo(MaxStrLen - 1) :
           \E den \in StringsUpTo(MaxStrLen - 1 - Len(str)) :
               ConstructTokens(str, den)
    \/ Store

SpecStr == Init /\ [][NextStr]_vars

\* ------------------------------------------- the forms of construction
\* the decimal text of an integer, as a template string writes it
DigitChars == <<"0", "1", "2", "3", "4", "5", "6", "7", "8", "9">>

RECURSIVE NatText(_)
NatText(n) ==
    IF n < 10 THEN <<DigitChars[n + 1]>>
    ELSE NatText(n \div 10) \o <<DigitChars[(n % 10) + 1]>>

IntText(n) == IF n < 0 THEN <<"-">> \o NatText(-n) ELSE NatText(n)

\* the integers whose text is written in the alphabet
TextInts ==
    {n \in IntInputs : \A i \in 1..Len(IntText(n)) : IntText(n)[i] \in Alphabet}

SymbolTexts == {<<"p", "i">>, <<"e">>}

\* new Rational(numerator, denominator, pf, ef), numbers or strings
ConstructWith(numerator, denominator, pf, ef) ==
    /\ pc = "new"
    /\ res' = Rational(numerator, denominator, pf, ef, TRUE)
    /\ args' = Args(numerator, denominator, pf, ef)
    /\ op' = "construct"
    /\ pc' = "built"
    /\ UNCHANGED <<x, y>>

\* new Rational("<a>pi", b, pf, ef)
SymbolToken(a, b, sym, pf, ef) ==
    ConstructWith(JSStr(IntText(a) \o sym), JSInt(b), pf, ef)

\* new Rational("<a>pi/<b>", 1, pf, ef)
SymbolFraction(a, b, sym, pf, ef) ==
    ConstructWith(JSStr(IntText(a) \o sym \o <<"/">> \o IntText(b)),
                  JSInt(1), pf, ef)

\* new Rational(a, "<b>pi", pf, ef)
SymbolDenominator(a, b, sym, pf, ef) ==
    ConstructWith(JSInt(a), JSStr(IntText(b) \o sym), pf, ef)

NextForms ==
    \/ pc = "new" /\ \E a, b \in TextInts : \E sym \in SymbolTexts :
           \E pf, ef \in FactorInputs : SymbolToken(a, b, sym, pf, ef)
    \/ pc = "new" /\ \E a, b \in TextInts : \E sym \in SymbolTexts :
           \E pf, ef \in FactorInputs : SymbolFraction(a, b, sym, pf, ef)
    \/ pc = "new" /\ \E a, b \in TextInts : \E sym \in SymbolTexts :
           \E pf, ef \in FactorInputs : SymbolDenominator(a, b, sym, pf, ef)
    \/ Store

SpecForms == Init /\ [][NextForms]_vars

\* ------------------------------------------------------ the comparisons
\* get approx, as far as > and < read it: the sign of the value (nan, inf
\* for NaN and Infinity) and the natural logarithm of its magnitude in
\* millionths
LnPi == 1144730
LnUnit == 1000000
LnTable == <<0, 693147, 1098612, 1386294, 1609438, 1791759, 1945910,
             2079442, 2197225>>

Approx(kind, ln) == [kind |-> kind, ln |-> ln]

\* (numerator * Math.PI**piFactor * Math.E**eFactor) / denominator; a zero
\* denominator is 0 or -0 (negZero), which the fields modelled do not tell
approx(r, negZero) ==
    IF IsNaN(r) THEN Approx("nan", 0)
    ELSE IF r.denominator = 0
    THEN IF (r.numerator > 0) # negZero
         THEN Approx("inf", 0) ELSE Approx("-inf", 0)
    ELSE IF r.numerator = 0 THEN Approx("zero", 0)
    ELSE Approx(IF r.numerator > 0 THEN "pos" ELSE "neg",
                LnTable[Abs(r.numerator)] - LnTable[r.denominator]
                + r.piFactor * LnPi + r.eFactor * LnUnit)

\* a number passed as it is
approxOfNumber(n) ==
    IF n = 0 THEN Approx("zero", 0)
    ELSE Approx(IF n > 0 THEN "pos" ELSE "neg", LnTable[Abs(n)])

\* the place of a value on the line, by kind
KindRank(kind) ==
    CASE kind = "-inf" -> 0 [] kind = "neg" -> 1 [] kind = "zero" -> 2
      [] kind = "pos" -> 3 [] kind = "inf" -> 4

\* a < b on numbers; false as soon as one is NaN
NumberLess(a, b) ==
    /\ a.kind # "nan"
    /\ b.kind # "nan"
    /\ \/ KindRank(a.kind) < KindRank(b.kind)
       \/ a.kind = "pos" /\ b.kind = "pos" /\ a.ln < b.ln
       \/ a.kind = "neg" /\ b.kind = "neg" /\ a.ln > b.ln

\* if(number instanceof Rational) number = number.approx
approxOfArg(number, negZero) ==
    IF number.inst THEN approx(number.r, negZero)
    ELSE approxOfNumber(number.v.p)

\* Rational.greaterThan
greaterThan(this, number, negThis, negArg) ==
    ReturnBool(NumberLess(approxOfArg(number, negArg), approx(this, negThis)))

\* Rational.lessThan
lessThan(this, number, negThis, negArg) ==
    ReturnBool(NumberLess(approx(this, negThis), approxOfArg(number, negArg)))

\* ------------------------------------------- the methods on their objects
\* the objects a call works on: the receiver, the argument and what the
\* call returns; created says that the returned object is a new one
Objects(this, number) ==
    [this |-> this, number |-> number, ret |-> NoResult, created |-> FALSE]

\* let ret = new Rational(...); ret.simplify(); return ret: the constructor
\* and simplify write the fields of the new object
Returning(h, ret) == [h EXCEPT !.ret = ret, !.created = ret.err = "none"]

\* return <boolean>
Answering(h, ret) == [h EXCEPT !.ret = ret]

plusOn(h) == Returning(h, plus(h.this, h.number))
minusOn(h) == Returning(h, minus(h.this, h.number))
timesOn(h) == Returning(h, times(h.this, h.number))
divideOn(h) == Returning(h, divide(h.this, h.number))
powerOn(h, fpExact) == Returning(h, power(h.this, h.number, fpExact))

\* abs taking the absolute value of the receiver's own numerator
absOnReceiver(h) ==
    [h EXCEPT !.ret = abs(h.this),
              !.this = [@ EXCEPT !.numerator = Abs(@)]]

\* ret.numerator = Math.abs(ret.numerator) writes the new object as well
absOn(h) == Returning(h, abs(h.this))

equalOn(h) == Answering(h, equal(h.this, h.number))
greaterThanOn(h, negThis, negArg) ==
    Answering(h, greaterThan(h.this, h.number, negThis, negArg))
lessThanOn(h, negThis, negArg) ==
    Answering(h, lessThan(h.this, h.number, negThis, negArg))

\* x.<name>(y): the receiver, the argument and the result after the call
Invoke(name, h) ==
    /\ pc = "ready"
    /\ op' = name
    /\ x' = h.this
    /\ y' = h.number
    /\ res' = [err |-> h.ret.err, val |-> h.ret.val, bool |-> h.ret.bool,
               created |-> h.created]
    /\ pc' = "done"
    /\ UNCHANGED args

InvokePlus == Invoke("plus", plusOn(Objects(x, y)))
InvokeMinus == Invoke("minus", minusOn(Objects(x, y)))
InvokeTimes == Invoke("times", timesOn(Objects(x, y)))
InvokeDivide == Invoke("divide", divideOn(Objects(x, y)))
InvokePower ==
    \E fpExact \in BOOLEAN : Invoke("power", powerOn(Objects(x, y), fpExact))
InvokeAbs == Invoke("abs", absOn(Objects(x, y)))
InvokeEqual == Invoke("equal", equalOn(Objects(x, y)))
InvokeGreaterThan ==
    \E negThis, negArg \in BOOLEAN :
        Invoke("greaterThan", greaterThanOn(Objects(x, y), negThis, negArg))
InvokeLessThan ==
    \E negThis, negArg \in BOOLEAN :
        Invoke("lessThan", lessThanOn(Objects(x, y), negThis, negArg))

NextObjects ==
    \/ pc = "new" /\ \E n, d \in IntInputs :
           \E pf, ef \in FactorInputs : Construct(n, d, pf, ef)
    \/ pc = "arg" /\ \E n, d \in IntInputs :
           \E pf, ef \in FactorInputs : ConstructArg(n, d, pf, ef)
    \/ pc = "arg" /\ \E n \in IntInputs : PlainArg(n)
    \/ InvokePlus
    \/ InvokeMinus
    \/ InvokeTimes
    \/ InvokeDivide
    \/ InvokePower
    \/ InvokeAbs
    \/ InvokeEqual
    \/ InvokeGreaterThan
    \/ InvokeLessThan
    \/ Store

SpecObjects == Init /\ [][NextObjects]_vars

\* ---------------------------------------------------------- RationalTuple
MaxTuple == 3

\* tuple.replace(/\s/g, '')
RECURSIVE StripSpace(_)
StripSpace(str) ==
    IF str = <<>> THEN <<>>
    ELSE IF Head(str) = " " THEN StripSpace(Tail(str))
    ELSE <<Head(str)>> \o StripSpace(Tail(str))

\* the position of the first ',' of str, 0 when it has none
FirstComma(str) ==
    IF \E i \in 1..Len(str) : str[i] = ","
    THEN CHOOSE i \in 1..Len(str) :
             str[i] = "," /\ \A j \in 1..(i - 1) : str[j] # ","
    ELSE 0

\* str.split(',') with the first ',' at position comma
RECURSIVE split(_)
\* split putting what follows the ',' first
splitAtReversed(str, comma) ==
    IF comma = 0 THEN <<str>>
    ELSE split(SubSeq(str, comma + 1, Len(str))) \o <<SubSeq(str, 1, comma - 1)>>

splitAt(str, comma) ==
    IF comma = 0 THEN <<str>>
    ELSE <<SubSeq(str, 1, comma - 1)>> \o split(SubSeq(str, comma + 1, Len(str)))

split(str) == splitAt(str, FirstComma(str))

\* /^\([^(),]+(,[^(),]+)*\)$/.test(tuple)
TuplePattern(str) ==
    /\ Len(str) >= 2
    /\ str[1] = "("
    /\ str[Len(str)] = ")"
    /\ \A i \in 2..(Len(str) - 1) : str[i] \notin {"(", ")"}
    /\ \A i \in 2..(Len(str) - 1) : str[i] = "," => str[i + 1] # ","
    /\ str[2] \notin {",", ")"}
    /\ str[Len(str) - 1] # ","

\* what the tuple's constructor returns: an error or the array _tuple
TupleOutcome(e, t) == [err |-> e, val |-> t]

\* matches.map(el => new Rational(el)): the first element that is rejected
\* ends the construction
FirstError(outs) ==
    IF \E i \in 1..Len(outs) : outs[i].err # "none"
    THEN outs[CHOOSE i \in 1..Len(outs) :
                  /\ outs[i].err # "none"
                  /\ \A j \in 1..(i - 1) : outs[j].err = "none"].err
    ELSE "none"

mapRational(outs) ==
    IF FirstError(outs) # "none" THEN TupleOutcome(FirstError(outs), <<>>)
    ELSE TupleOutcome("none", [i \in 1..Len(outs) |-> outs[i].val])

fromMatches(matches) ==
    mapRational([i \in 1..Len(matches) |->
                    Rational(JSStr(matches[i]), JSInt(1), 0, 0, TRUE)])

\* tuple.slice(1, -1).split(','), after the assertion on the pattern
fromStripped(tuple) ==
    IF TuplePattern(tuple)
    THEN fromMatches(split(SubSeq(tuple, 2, Len(tuple) - 1)))
    ELSE TupleOutcome("InvalidTuple", <<>>)

\* RationalTuple.constructor on a string
RationalTupleOfString(tuple) == fromStripped(StripSpace(tuple))

\* RationalTuple.constructor on an array of Rationals
RationalTupleOfArray(tuple) == TupleOutcome("none", tuple)

\* get approx
tupleApprox(_tuple, negZero) ==
    [i \in 1..Len(_tuple) |-> approx(_tuple[i], negZero[i])]

\* get length
tupleLength(_tuple) == Len(_tuple)

\* the texts the elements are written with
ElementTexts ==
    {<<"1">>, <<"-", "2">>, <<"p", "i">>, <<"2", "p", "i">>, <<"e">>,
     <<"1", "/", "2">>, <<"1", "/", "0">>, <<"0">>, <<>>, <<"1", ".", "2">>, <<"-">>,
     <<"0", " ", "2">>, <<"(", "1", ")">>}

SeqsUpTo(S, n) == UNION {[1..k -> S] : k \in 0..n}

\* the elements joined by sep
RECURSIVE Join(_, _)
Join(elems, sep) ==
    IF elems = <<>> THEN <<>>
    ELSE IF Len(elems) = 1 THEN elems[1]
    ELSE elems[1] \o sep \o Join(Tail(elems), sep)

Shapes == {"tuple", "unopened", "unclosed"}

\* the string "(a, b, ...)" of the elements, or one with a parenthesis
\* missing
TupleText(elems, sep, shape) ==
    (IF shape = "unopened" THEN <<>> ELSE <<"(">>)
    \o Join(elems, sep)
    \o (IF shape = "unclosed" THEN <<>> ELSE <<")">>)

TupleArgs(text, elems, shape, negZero) ==
    [text |-> text, elems |-> elems, shape |-> shape, negZero |-> negZero]

TupleResult(out, negZero) ==
    [err |-> out.err, val |-> out.val,
     approx |-> tupleApprox(out.val, negZero),
     length |-> tupleLength(out.val)]

\* t = new RationalTuple(text); t.approx; t.length
TupleFromString(elems, sep, shape, negZero) ==
    /\ pc = "new"
    /\ args' = TupleArgs(TupleText(elems, sep, shape), elems, shape, negZero)
    /\ res' = TupleResult(RationalTupleOfString(TupleText(elems, sep, shape)),
                          negZero)
    /\ op' = "tuple-string"
    /\ pc' = "built"
    /\ UNCHANGED <<x, y>>

\* t = new RationalTuple([r1, ...]) of Rationals built before
TupleFromArray(elems, negZero) ==
    /\ pc = "new"
    /\ fromMatches(elems).err = "none"
    /\ args' = TupleArgs(<<>>, elems, "array", negZero)
    /\ res' = TupleResult(RationalTupleOfArray(fromMatches(elems).val), negZero)
    /\ op' = "tuple-array"
    /\ pc' = "built"
    /\ UNCHANGED <<x, y>>

\* the signs the zero denominators of the elements may have
ZeroSigns(_tuple, n) ==
    {negZero \in [1..n -> BOOLEAN] :
        \A i \in 1..n :
            negZero[i] => (i <= Len(_tuple) /\ _tuple[i].denominator = 0)}

NextTuple ==
    \/ pc = "new" /\ \E elems \in SeqsUpTo(ElementTexts, MaxTuple) :
           \E sep \in {<<",">>, <<",", " ">>} : \E shape \in Shapes :
               \E negZero \in ZeroSigns(
                      RationalTupleOfString(TupleText(elems, sep, shape)).val,
                      Len(elems)) :
                   TupleFromString(elems, sep, shape, negZero)
    \/ pc = "new" /\ \E elems \in SeqsUpTo(ElementTexts, MaxTuple) :
           \E negZero \in ZeroSigns(fromMatches(elems).val, Len(elems)) :
               TupleFromArray(elems, negZero)

SpecTuple == Init /\ [][NextTuple]_vars

\* ----------------------------------------------------------------- MathML
\* a node of the document: an element with its child nodes, or a text node
Element(tag, childNodes, text) ==
    [tagName |-> tag, childNodes |-> childNodes, textContent |-> text]
TextNode(text) == Element("#text", <<>>, text)
IsElement(node) == node.tagName # "#text"

\* node.children: the child nodes that are elements
RECURSIVE ElementsOf(_)
ElementsOf(nodes) ==
    IF nodes = <<>> THEN <<>>
    ELSE IF IsElement(Head(nodes))
    THEN <<Head(nodes)>> \o ElementsOf(Tail(nodes))
    ELSE ElementsOf(Tail(nodes))

children(node) == ElementsOf(node.childNodes)
childElementCount(node) == Len(children(node))

\* /^-?[0-9]+(\.[0-9]+)?$/ on what follows the optional '-'
CnDigits(str) ==
    /\ DigitRun(str) > 0
    /\ \/ DigitRun(str) = Len(str)
       \/ /\ DigitRun(str) + 1 < Len(str)
          /\ str[DigitRun(str) + 1] = "."
          /\ DigitRun(SubSeq(str, DigitRun(str) + 2, Len(str)))
               = Len(str) - DigitRun(str) - 1

\* /^-?[0-9]+(\.[0-9]+)?$/.test(node.textContent)
CnPattern(str) ==
    IF str # <<>> /\ Head(str) = "-" THEN CnDigits(Tail(str)) ELSE CnDigits(str)

\* the number an unsigned decimal text denotes: a fraction over a power of
\* ten, an integer when the fraction is 0
decimalOf(int, frac) ==
    IF parseInt(frac) = 0 THEN JSInt(parseInt(int))
    ELSE JSFrac(parseInt(int) * Pow(10, Len(frac)) + parseInt(frac),
                Pow(10, Len(frac)))

unsignedFloat(str) ==
    IF DigitRun(str) = Len(str) THEN decimalOf(str, <<>>)
    ELSE decimalOf(SubSeq(str, 1, DigitRun(str)),
                   SubSeq(str, DigitRun(str) + 2, Len(str)))

negated(v) == [v EXCEPT !.p = -@]

\* parseFloat(node.textContent), the text matching the pattern
parseFloat(str) ==
    IF Head(str) = "-" THEN negated(unsignedFloat(Tail(str)))
    ELSE unsignedFloat(str)

\* The numbers the compiled functions compute, taken as the real numbers the
\* floating-point results stand for: (n/d) pi^p e^q in lowest terms ("num"),
\* an infinity of either sign ("inf"), NaN ("nan"), or a real number that
\* is not of that form ("other").
RECURSIVE Gcd(_, _)
Gcd(a, b) == IF b = 0 THEN a ELSE Gcd(b, a % b)

Real(kind, n, d, p, q) == [kind |-> kind, n |-> n, d |-> d, p |-> p, q |-> q]
RealInf == Real("inf", 0, 0, 0, 0)
RealNaN == Real("nan", 0, 0, 0, 0)
RealOther == Real("other", 0, 0, 0, 0)
RealZero == Real("num", 0, 1, 0, 0)

\* (n/d) pi^p e^q, d # 0
RealNum(n, d, p, q) ==
    IF n = 0 THEN RealZero
    ELSE IF d > 0
    THEN Real("num", n \div Gcd(Abs(n), d), d \div Gcd(Abs(n), d), p, q)
    ELSE Real("num", (-n) \div Gcd(Abs(n), -d), (-d) \div Gcd(Abs(n), -d), p, q)

RealInt(n) == RealNum(n, 1, 0, 0)
IsZero(a) == a.kind = "num" /\ a.n = 0

\* a + b
RealPlus(a, b) ==
    IF a.kind = "nan" \/ b.kind = "nan" THEN RealNaN
    ELSE IF a.kind = "inf" /\ b.kind = "inf" THEN RealOther
    ELSE IF a.kind = "inf" \/ b.kind = "inf" THEN RealInf
    ELSE IF IsZero(a) THEN b
    ELSE IF IsZero(b) THEN a
    ELSE IF a.kind = "other" \/ b.kind = "other" THEN RealOther
    ELSE IF a.p = b.p /\ a.q = b.q
    THEN RealNum(a.n * b.d + b.n * a.d, a.d * b.d, a.p, a.q)
    ELSE RealOther

\* -a
RealNeg(a) == IF a.kind = "num" THEN [a EXCEPT !.n = -@] ELSE a

\* a * b
RealTimes(a, b) ==
    IF a.kind = "nan" \/ b.kind = "nan" THEN RealNaN
    ELSE IF a.kind = "inf" \/ b.kind = "inf"
    THEN IF IsZero(a) \/ IsZero(b) THEN RealNaN ELSE RealInf
    ELSE IF IsZero(a) \/ IsZero(b) THEN RealZero
    ELSE IF a.kind = "other" \/ b.kind = "other" THEN RealOther
    ELSE RealNum(a.n * b.n, a.d * b.d, a.p + b.p, a.q + b.q)

\* 1 / a
RealInverse(a) ==
    IF a.kind = "inf" THEN RealZero
    ELSE IF IsZero(a) THEN RealInf
    ELSE IF a.kind = "num" THEN RealNum(a.d, a.n, -a.p, -a.q)
    ELSE a

\* a / b
RealDivide(a, b) ==
    IF a.kind = "inf" /\ b.kind = "inf" THEN RealNaN
    ELSE RealTimes(a, RealInverse(b))

\* a ** k, k a natural number
RECURSIVE RealPower(_, _)
RealPower(a, k) ==
    IF k = 0 THEN RealInt(1) ELSE RealTimes(a, RealPower(a, k - 1))

\* b ** k when it is cap at most, cap + 1 otherwise
RECURSIVE PowFrom(_, _, _, _)
PowFrom(acc, b, k, cap) ==
    IF k = 0 THEN acc
    ELSE IF acc > cap \div b THEN cap + 1
    ELSE PowFrom(acc * b, b, k - 1, cap)

PowUpTo(b, k, cap) == PowFrom(1, b, k, cap)

\* the natural number whose n-th power is m, 0 when there is none
IntRoot(m, n) ==
    IF \E r \in 1..m : PowUpTo(r, n, m) = m
    THEN CHOOSE r \in 1..m : PowUpTo(r, n, m) = m
    ELSE 0

\* a ** (1/n), n a positive natural number
RealRoot(a, n) ==
    IF a.kind # "num" \/ n = 1 THEN a
    ELSE IF IsZero(a) THEN RealZero
    ELSE IF a.n < 0 THEN RealNaN
    ELSE IF /\ IntRoot(a.n, n) > 0 /\ IntRoot(a.d, n) > 0
            /\ a.p % n = 0 /\ a.q % n = 0
    THEN RealNum(IntRoot(a.n, n), IntRoot(a.d, n), a.p \div n, a.q \div n)
    ELSE RealOther

\* a ** b
RealPow(a, b) ==
    IF IsZero(b) THEN RealInt(1)
    ELSE IF a.kind = "nan" \/ b.kind = "nan" THEN RealNaN
    ELSE IF b.kind = "num" /\ b.p = 0 /\ b.q = 0 /\ b.d = 1
    THEN IF b.n > 0 THEN RealPower(a, b.n)
         ELSE RealInverse(RealPower(a, -b.n))
    ELSE IF b.kind = "num" /\ b.p = 0 /\ b.q = 0 /\ b.n = 1
    THEN RealRoot(a, b.d)
    ELSE IF a.kind = "num" /\ Abs(a.n) = 1 /\ a.d = 1 /\ a.p = 0 /\ a.q = 0
    THEN IF b.kind = "inf" THEN RealNaN
         ELSE IF a.n = 1 THEN RealInt(1) ELSE RealOther
    ELSE RealOther

\* Math.abs
RealAbs(a) == IF a.kind = "num" THEN [a EXCEPT !.n = Abs(@)] ELSE a

\* Math.sin, Math.cos and Math.tan: the values at 0 are kept, the others
\* are real numbers of no special form
RealSin(a) ==
    IF IsZero(a) THEN RealZero
    ELSE IF a.kind \in {"nan", "inf"} THEN RealNaN ELSE RealOther
RealCos(a) ==
    IF IsZero(a) THEN RealInt(1)
    ELSE IF a.kind \in {"nan", "inf"} THEN RealNaN ELSE RealOther
RealTan(a) == RealSin(a)

\* Math.log: the logarithms of 0, 1 and the powers of e are kept
RealLn(a) ==
    IF a.kind = "nan" THEN RealNaN
    ELSE IF a.kind = "inf" THEN RealInf
    ELSE IF a.kind = "other" THEN RealOther
    ELSE IF a.n = 0 THEN RealInf
    ELSE IF a.n < 0 THEN RealNaN
    ELSE IF a.n = 1 /\ a.d = 1 /\ a.p = 0 THEN RealInt(a.q)
    ELSE RealOther

\* what compiling a node gives: an error, or a function, of which val is the
\* value at the number the function is run with
Compiled(e, v) == [err |-> e, val |-> v]
CompileError(e) == Compiled(e, RealNaN)
Function(v) == Compiled("none", v)

\* a list evaluates to the array of its elements' values
RealList(elems) == [kind |-> "list", elems |-> elems]

\* this._assertChildren(node, count), then the function returned
Counted(actual, count, v) ==
    IF actual = count THEN Function(v) ELSE CompileError("ArityMismatch")

\* the switch of _parseApplyToFunction: count is node.childElementCount and
\* a the values of args
applyToFunction(action, count, a) ==
    CASE action = "plus" -> Counted(count, 3, RealPlus(a[1], a[2]))
      [] action = "minus" ->
            IF count = 3 THEN Function(RealPlus(a[1], RealNeg(a[2])))
            ELSE IF count = 2 THEN Function(RealNeg(a[1]))
            ELSE CompileError("ArityMismatch")
      [] action = "times" -> Counted(count, 3, RealTimes(a[1], a[2]))
      [] action = "divide" -> Counted(count, 3, RealDivide(a[1], a[2]))
      [] action = "power" -> Counted(count, 3, RealPow(a[1], a[2]))
      [] action = "root" ->
            Counted(count, 3, RealPow(a[2], RealInverse(a[1])))
      [] action = "sin" -> Counted(count, 2, RealSin(a[1]))
      [] action = "cos" -> Counted(count, 2, RealCos(a[1]))
      [] action = "tan" -> Counted(count, 2, RealTan(a[1]))
      [] action = "abs" -> Counted(count, 2, RealAbs(a[1]))
      [] action = "ln" -> Counted(count, 2, RealLn(a[1]))
      [] action = "log" ->
            IF count = 2
            THEN Function(RealDivide(RealLn(a[1]), RealLn(RealInt(10))))
            ELSE IF count = 3
            THEN Function(RealDivide(RealLn(a[2]), RealLn(a[1])))
            ELSE CompileError("ArityMismatch")
      [] OTHER -> CompileError("UnknownAction")

\* args = argNodes.map(this._parseNodeToFunction, this), then the switch
applyCompiled(action, count, outs) ==
    IF FirstError(outs) # "none" THEN CompileError(FirstError(outs))
    ELSE applyToFunction(action, count, [i \in 1..Len(outs) |-> outs[i].val])

\* a list of the elements that compile, the others left out
listOfCompiled(outs) ==
    Function(RealList(
        [i \in 1..Len(SelectSeq(outs, LAMBDA o : o.err = "none")) |->
            SelectSeq(outs, LAMBDA o : o.err = "none")[i].val]))

listCompiled(outs) ==
    IF FirstError(outs) # "none" THEN CompileError(FirstError(outs))
    ELSE Function(RealList([i \in 1..Len(outs) |-> outs[i].val]))

\* the number a <cn> text denotes
RealOfNumber(v) == RealNum(v.p, v.q, 0, 0)

\* MathML._parseNodeToFunction and MathML._parseApplyToFunction; xval is
\* the number x the function is run with
RECURSIVE _parseNodeToFunction(_, _)
_parseApplyToFunction(node, xval) ==
    IF childElementCount(node) < 2 THEN CompileError("ArityMismatch")
    ELSE applyCompiled(node.childNodes[1].tagName, childElementCount(node),
                       [i \in 1..(childElementCount(node) - 1) |->
                           _parseNodeToFunction(children(node)[i + 1], xval)])

_parseNodeToFunction(node, xval) ==
    CASE node.tagName = "apply" -> _parseApplyToFunction(node, xval)
      [] node.tagName = "ci" ->
            IF node.textContent = <<"x">> THEN Function(RealInt(xval))
            ELSE CompileError("InvalidVariable")
      [] node.tagName = "cn" ->
            IF CnPattern(node.textContent)
            THEN Function(RealOfNumber(parseFloat(node.textContent)))
            ELSE CompileError("InvalidConstant")
      [] node.tagName \in {"degree", "logbase"} ->
            IF node.childNodes = <<>> THEN CompileError("TypeError")
            ELSE _parseNodeToFunction(node.childNodes[1], xval)
      [] node.tagName = "pi" -> Function(RealNum(1, 1, 1, 0))
      [] node.tagName = "exponentiale" -> Function(RealNum(1, 1, 0, 1))
      [] node.tagName = "list" ->
            listCompiled([i \in 1..childElementCount(node) |->
                             _parseNodeToFunction(children(node)[i], xval)])
      [] OTHER -> CompileError("UnknownElement")

\* the switch of _parseApplyToRational: count is node.childElementCount and
\* a the Rationals of args
applyToRational(action, count, a, fpExact) ==
    CASE action = "plus" ->
            IF count = 3 THEN plus(a[1], RationalArg(a[2]))
            ELSE Throw("ArityMismatch")
      [] action = "minus" ->
            IF count = 3 THEN minus(a[1], RationalArg(a[2]))
            ELSE IF count = 2 THEN times(a[1], NumberArg(JSInt(-1)))
            ELSE Throw("ArityMismatch")
      [] action = "times" ->
            IF count = 3 THEN times(a[1], RationalArg(a[2]))
            ELSE Throw("ArityMismatch")
      [] action = "divide" ->
            IF count = 3 THEN divide(a[1], RationalArg(a[2]))
            ELSE Throw("ArityMismatch")
      [] action = "power" ->
            IF count = 3 THEN power(a[1], RationalArg(a[2]), fpExact)
            ELSE Throw("ArityMismatch")
      [] OTHER -> Throw("UnknownAction")

\* the switch rejecting the action before the arguments are looked at
applySwitchFirst(action, count, outs, fpExact) ==
    IF action \notin {"plus", "minus", "times", "divide", "power"}
    THEN Throw("UnknownAction")
    ELSE IF FirstError(outs) # "none" THEN Throw(FirstError(outs))
    ELSE applyToRational(action, count,
                         [i \in 1..Len(outs) |-> outs[i].val], fpExact)

\* args = argNodes.map(this._parseNodeToRational, this), then the switch
applyEvaluated(action, count, outs, fpExact) ==
    IF FirstError(outs) # "none" THEN Throw(FirstError(outs))
    ELSE applyToRational(action, count,
                         [i \in 1..Len(outs) |-> outs[i].val], fpExact)

\* a tuple of the elements that evaluate, the others left out
listOfEvaluated(outs) ==
    [err |-> "none",
     val |-> RationalTupleOfArray(
                 [i \in 1..Len(SelectSeq(outs, LAMBDA o : o.err = "none")) |->
                     SelectSeq(outs, LAMBDA o : o.err = "none")[i].val]).val,
     bool |-> FALSE]

\* new RationalTuple(elements)
listEvaluated(outs) ==
    IF FirstError(outs) # "none" THEN Throw(FirstError(outs))
    ELSE [err |-> "none",
          val |-> RationalTupleOfArray([i \in 1..Len(outs) |-> outs[i].val]).val,
          bool |-> FALSE]

\* MathML._parseNodeToRational and MathML._parseApplyToRational
RECURSIVE _parseNodeToRational(_, _)
_parseApplyToRational(node, fpExact) ==
    IF childElementCount(node) < 2 THEN Throw("ArityMismatch")
    ELSE applyEvaluated(node.childNodes[1].tagName, childElementCount(node),
                        [i \in 1..(childElementCount(node) - 1) |->
                            _parseNodeToRational(children(node)[i + 1], fpExact)],
                        fpExact)

_parseNodeToRational(node, fpExact) ==
    CASE node.tagName = "apply" -> _parseApplyToRational(node, fpExact)
      [] node.tagName = "cn" ->
            IF CnPattern(node.textContent)
            THEN Rational(parseFloat(node.textContent), JSInt(1), 0, 0, fpExact)
            ELSE Throw("InvalidConstant")
      [] node.tagName = "pi" -> Rational(JSInt(1), JSInt(1), 1, 0, TRUE)
      [] node.tagName = "exponentiale" -> Rational(JSInt(1), JSInt(1), 0, 1, TRUE)
      [] node.tagName = "list" ->
            listEvaluated([i \in 1..childElementCount(node) |->
                              _parseNodeToRational(children(node)[i], fpExact)])
      [] OTHER -> Throw("UnknownElement")

\* new MathML(mathml): the constructor compiles the function; a document
\* that does not compile gives no object
MathMLObject(root, xval) == _parseNodeToFunction(root, xval)

\* get rational, of an object that was constructed
rational(root, xval, fpExact) ==
    IF MathMLObject(root, xval).err # "none"
    THEN Throw(MathMLObject(root, xval).err)
    ELSE _parseNodeToRational(root, fpExact)

\* an <apply> has at most MaxArgs arguments after its operator
MaxArgs == 2

\* the operators of _parseApplyToFunction's switch, and one it does not know
Operators ==
    {"plus", "minus", "times", "divide", "power", "root",
     "sin", "cos", "tan", "abs", "ln", "log", "arctan"}

Cn(text) == Element("cn", <<TextNode(text)>>, text)
Ci(text) == Element("ci", <<TextNode(text)>>, text)
Empty(tag) == Element(tag, <<>>, <<>>)
Wrapped(tag, node) == Element(tag, <<node>>, node.textContent)

\* node.textContent of an element with these child nodes
RECURSIVE TextOf(_)
TextOf(nodes) ==
    IF nodes = <<>> THEN <<>>
    ELSE Head(nodes).textContent \o TextOf(Tail(nodes))

Parent(tag, childNodes) == Element(tag, childNodes, TextOf(childNodes))

\* <apply><action/>argNodes...</apply>
Apply(action, argNodes) == Parent("apply", <<Empty(action)>> \o argNodes)

\* the nodes the arguments are written with
ArgumentNodes ==
    {Cn(<<"0">>), Cn(<<"1">>), Cn(<<"2">>), Cn(<<"-", "1">>),
     Cn(<<"1", ".", "2">>), Cn(<<"1", "2", "1">>),
     Empty("pi"), Empty("exponentiale"), Ci(<<"x">>),
     Wrapped("degree", Cn(<<"2">>)), Wrapped("logbase", Cn(<<"2">>)),
     Cn(<<"1", ".">>), Ci(<<"e">>), Empty("infinity")}

\* the numbers the compiled function is run with
XValues == -1..1

\* the exponents of <power/> are integers up to MaxExponent in magnitude, or
\* numbers that are no integers
MaxExponent == 3

Bounded(action, argNodes, xval) ==
    (action = "power" /\ Len(argNodes) >= 2
     /\ _parseNodeToFunction(argNodes[2], xval).err = "none")
    => \/ _parseNodeToFunction(argNodes[2], xval).val.kind # "num"
       \/ _parseNodeToFunction(argNodes[2], xval).val.d # 1
       \/ Abs(_parseNodeToFunction(argNodes[2], xval).val.n) <= MaxExponent

MathMLArgs(root, argNodes, xval, fpExact) ==
    [root |-> root, argNodes |-> argNodes, xval |-> xval, fpExact |-> fpExact]

\* m = new MathML(root); m.exec(xval); m.rational
MathMLResult(root, xval, fpExact) ==
    [err |-> MathMLObject(root, xval).err,
     exec |-> MathMLObject(root, xval).val,
     rational |-> rational(root, xval, fpExact)]

\* the document is an <apply> of one operator to argument nodes
NewApply(action, argNodes, xval, fpExact) ==
    /\ pc = "new"
    /\ Bounded(action, argNodes, xval)
    /\ args' = MathMLArgs(Apply(action, argNodes), argNodes, xval, fpExact)
    /\ res' = MathMLResult(Apply(action, argNodes), xval, fpExact)
    /\ op' = action
    /\ pc' = "built"
    /\ UNCHANGED <<x, y>>

NextApply ==
    pc = "new" /\ \E action \in Operators :
        \E argNodes \in SeqsUpTo(ArgumentNodes, MaxArgs) :
            \E xval \in XValues : \E fpExact \in BOOLEAN :
                NewApply(action, argNodes, xval, fpExact)

SpecApply == Init /\ [][NextApply]_vars

\* ------------------------------------------------------- MathML documents
\* parser.parseFromString(mathml, 'text/xml'): the child nodes of the
\* document; white space outside the root element gives no node
parseFromString(nodes) == ElementsOf(nodes)

\* new MathML(mathml) of the string the nodes are written as, and its two
\* getters
MathMLOfString(nodes, xval, fpExact) ==
    [err |-> MathMLObject(parseFromString(nodes)[1], xval).err,
     exec |-> MathMLObject(parseFromString(nodes)[1], xval).val,
     rational |-> rational(parseFromString(nodes)[1], xval, fpExact)]

\* a document has at most MaxDepth elements nested around its innermost one
MaxDepth == 2

WhiteSpace == TextNode(<<" ">>)

\* the elements whose children are elements
Containers == {"apply", "degree", "logbase", "list"}

\* white space before every node, and after the last when closing holds
RECURSIVE Spread(_, _)
Spread(nodes, closing) ==
    IF nodes = <<>> THEN (IF closing THEN <<WhiteSpace>> ELSE <<>>)
    ELSE <<WhiteSpace, Head(nodes)>> \o Spread(Tail(nodes), closing)

\* the child nodes written with white space: "between" separates the
\* children, "indented" also puts it before the first and after the last
Spaced(nodes, format) ==
    IF format = "indented" THEN Spread(nodes, TRUE)
    ELSE IF nodes = <<>> THEN <<>>
    ELSE Tail(Spread(nodes, FALSE))

\* the document written with white space in every container
RECURSIVE Formatted(_, _)
Formatted(node, format) ==
    IF node.tagName \in Containers
    THEN Parent(node.tagName,
                Spaced([i \in 1..Len(node.childNodes) |->
                           Formatted(node.childNodes[i], format)], format))
    ELSE node

Formats == {"between", "indented", "before-root"}

\* the nodes of the string of root written in the format
Written(root, format) ==
    IF format = "before-root" THEN <<WhiteSpace, root>>
    ELSE <<Formatted(root, format)>>

\* the innermost elements of the documents
LeafNodes ==
    {Cn(<<"2">>), Cn(<<"-", "1">>), Cn(<<"1", ".", "2">>),
     Empty("pi"), Ci(<<"x">>), Empty("infinity")}

\* the operators the documents apply
TreeOperators == {"plus", "power", "sin", "arctan"}

\* the argument lists an element is given around the node it wraps
ArgumentLists(node) ==
    {<<node>>, <<node, Cn(<<"2">>)>>, <<Cn(<<"2">>), node>>}

\* the elements that take a number: an <apply> and a <degree>
NumberWrappers(node) ==
    {Apply(action, argNodes) :
        action \in TreeOperators, argNodes \in ArgumentLists(node)}
    \cup {Apply("plus", <<node, Ci(<<"x">>)>>), Wrapped("degree", node)}

\* a <cn> with the node after its digit, the text of the node being one
\* character at most
NumberAround(node) ==
    IF Len(node.textContent) <= 1
    THEN {Parent("cn", <<TextNode(<<"2">>), node>>)}
    ELSE {}

\* the elements that wrap a node: those that take a number when the node is
\* no <list>, a <list>, and the two places a node is never looked at: after
\* the first child of a <degree>, and inside a <cn>
Wrappers(node) ==
    (IF node.tagName = "list" THEN {} ELSE NumberWrappers(node))
    \cup {Parent("list", argNodes) :
            argNodes \in {<<node>>, <<node, Cn(<<"2">>)>>}}
    \cup {Parent("degree", <<Cn(<<"2">>), node>>)}
    \cup NumberAround(node)

TreeArgs(nodes, root, depth, format, xval, fpExact) ==
    [nodes |-> nodes, root |-> root, depth |-> depth, format |-> format,
     xval |-> xval, fpExact |-> fpExact]

\* the results for the string as written and for the string without white
\* space
TreeResult(nodes, root, xval, fpExact) ==
    [written |-> MathMLOfString(nodes, xval, fpExact),
     plain |-> MathMLOfString(<<root>>, xval, fpExact)]

\* the document is one innermost element
NewLeaf(node, fpExact) ==
    /\ pc = "new"
    /\ args' = TreeArgs(<<node>>, node, 0, "plain", 1, fpExact)
    /\ res' = TreeResult(<<node>>, node, 1, fpExact)
    /\ op' = node.tagName
    /\ pc' = "tree"
    /\ UNCHANGED <<x, y>>

\* the document is put inside another element, a <power/> with an exponent
\* within the bound
Wrap(node) ==
    /\ pc = "tree"
    /\ args.depth < MaxDepth
    /\ node.tagName = "apply"
         => Bounded(Head(node.childNodes).tagName, Tail(children(node)),
                    args.xval)
    /\ args' = TreeArgs(<<node>>, node, args.depth + 1, "plain",
                        args.xval, args.fpExact)
    /\ res' = TreeResult(<<node>>, node, args.xval, args.fpExact)
    /\ op' = node.tagName
    /\ pc' = "tree"
    /\ UNCHANGED <<x, y>>

\* the document is written with white space
Format(format) ==
    /\ pc = "tree"
    /\ args' = [args EXCEPT !.nodes = Written(args.root, format),
                            !.format = format]
    /\ res' = TreeResult(Written(args.root, format), args.root,
                         args.xval, args.fpExact)
    /\ pc' = "written"
    /\ UNCHANGED <<x, y, op>>

NextTree ==
    \/ pc = "new" /\ \E node \in LeafNodes :
           \E fpExact \in {TRUE, node # Cn(<<"1", ".", "2">>)} :
               NewLeaf(node, fpExact)
    \/ pc = "tree" /\ \E node \in Wrappers(args.root) : Wrap(node)
    \/ pc = "tree" /\ \E format \in Formats : Format(format)

SpecTree == Init /\ [][NextTree]_vars

\* ---------------------------------------------------------------- claims
\* the Rational the method works on after coercing its argument
ArgVal == Coerce(y).val

\* a value of the data model: the denominator is not zero
Valid(r) == r.denominator # 0

Arith == {"plus", "minus", "times", "divide", "power", "abs"}
Called(name) == pc = "done" /\ op = name
Constructed == pc = "built" /\ op = "construct"
Returned == res.err = "none"

\* Euclid on natural numbers
RECURSIVE NatGCD(_, _)
NatGCD(a, b) == IF b = 0 THEN a ELSE NatGCD(b, a % b)

LowestTerms(r) ==
    /\ r.denominator > 0
    /\ NatGCD(Abs(r.numerator), r.denominator) = 1

\* the fraction n/d in lowest terms with a positive denominator, d # 0
Normal(n, d, pf, ef) ==
    LET g == NatGCD(Abs(n), Abs(d)) IN
    IF d > 0 THEN Rat(n \div g, d \div g, pf, ef)
             ELSE Rat((-n) \div g, (-d) \div g, pf, ef)

\* C1: every Rational the constructor returns for integers (n, d), d # 0,
\* and every Rational plus, minus, times, divide (by a non-zero divisor),
\* power and abs return for such values, is in lowest terms with a positive
\* denominator.
C1_Simplified ==
    /\ (Constructed /\ Returned /\ args.denominator # JSInt(0))
           => LowestTerms(res.val)
    /\ \A name \in Arith :
           (/\ Called(name) /\ Returned
            /\ Valid(x) /\ Valid(ArgVal)
            /\ (name = "divide" => ArgVal.numerator # 0))
           => LowestTerms(res.val)

\* (-2/3) * (3/2): the product -6/6 is returned as -1/1
C1_Witness ==
    /\ Called("times") /\ Returned
    /\ x.numerator = -2 /\ x.denominator = 3
    /\ ArgVal.numerator = 3 /\ ArgVal.denominator = 2
    /\ res.val.numerator = -1 /\ res.val.denominator = 1

SameFactors(a, b) == a.piFactor = b.piFactor /\ a.eFactor = b.eFactor

\* C2: plus and minus throw the symbol error exactly when the operands'
\* (piFactor, eFactor) pairs differ, and return a value whenever the pairs
\* are identical (the operands being values with a non-zero denominator).
C2_PlusMinusSymbols ==
    \A name \in {"plus", "minus"} :
        Called(name) =>
            /\ (res.err = "IncompatibleSymbol") <=> ~SameFactors(x, ArgVal)
            /\ (SameFactors(x, ArgVal) /\ Valid(x) /\ Valid(ArgVal)) => Returned

\* pi - e is rejected
C2_Witness ==
    /\ Called("minus")
    /\ x.piFactor = 1 /\ x.eFactor = 0
    /\ ArgVal.piFactor = 0 /\ ArgVal.eFactor = 1
    /\ res.err = "IncompatibleSymbol"

\* one operand has a pi factor and the other an e factor
MixesPiAndE(a, b) ==
    \/ a.piFactor # 0 /\ b.eFactor # 0
    \/ b.piFactor # 0 /\ a.eFactor # 0

\* no e factor at all, or no pi factor at all
OneSymbolAtMost(a, b) ==
    \/ a.piFactor = 0 /\ b.piFactor = 0
    \/ a.eFactor = 0 /\ b.eFactor = 0

\* C3: times and divide throw the symbol error exactly when one operand has
\* a non-zero pi factor and the other a non-zero e factor, whichever is the
\* receiver, and return a value when at most one symbol is involved.
C3_TimesDivideSymbols ==
    \A name \in {"times", "divide"} :
        Called(name) =>
            /\ (res.err = "IncompatibleSymbol") <=> MixesPiAndE(x, ArgVal)
            /\ (OneSymbolAtMost(x, ArgVal) /\ Valid(x) /\ Valid(ArgVal))
                   => Returned

\* e divided by pi is rejected: the receiver has the e factor
C3_Witness ==
    /\ Called("divide")
    /\ x.eFactor = 1 /\ x.piFactor = 0
    /\ ArgVal.piFactor = 1 /\ ArgVal.eFactor = 0
    /\ res.err = "IncompatibleSymbol"

\* C4: every Rational a construction or an operation returns has a zero pi
\* factor or a zero e factor.
C4_OneSymbol ==
    ((Constructed \/ (pc = "done" /\ op \in Arith)) /\ Returned)
        => (res.val.piFactor = 0 \/ res.val.eFactor = 0)

\* C5: no construction and no operation returns a Rational whose denominator
\* is zero (or NaN).
C5_NoZeroDenominator ==
    ((Constructed \/ (pc = "done" /\ op \in Arith)) /\ Returned)
        => res.val.denominator # 0

\* C6: power throws the unsupported-operation error exactly when the
\* exponent's denominator is not 1 or one of its symbol factors is not 0.
C6_PowerExponent ==
    Called("power") =>
        ((res.err = "UnsupportedOperation") <=>
            (\/ ArgVal.denominator # 1
             \/ ArgVal.piFactor # 0
             \/ ArgVal.eFactor # 0))

\* the exponent e is rejected
C6_Witness ==
    /\ Called("power")
    /\ ArgVal = Rat(1, 1, 0, 1)
    /\ res.err = "UnsupportedOperation"

\* a^k for a = n/d with n # 0, d > 0
ExactPower(a, k) ==
    IF k >= 0
    THEN Normal(Pow(a.numerator, k), Pow(a.denominator, k),
                a.piFactor * k, a.eFactor * k)
    ELSE Normal(Pow(a.denominator, -k), Pow(a.numerator, -k),
                a.piFactor * k, a.eFactor * k)

IntegerExponent(r) ==
    r.denominator = 1 /\ r.piFactor = 0 /\ r.eFactor = 0

\* C7: for a base (n/d)*s^f with a non-zero numerator and a symbol-free
\* integer exponent k, positive, zero or negative, power returns exactly a^k.
C7_PowerExact ==
    (/\ Called("power")
     /\ Valid(x) /\ x.numerator # 0
     /\ (x.piFactor = 0 \/ x.eFactor = 0)
     /\ IntegerExponent(ArgVal))
    => (Returned /\ res.val = ExactPower(x, ArgVal.numerator))

\* C8: equal is true exactly when all four fields match or both numerators
\* are 0, and it is symmetric.
C8_Equal ==
    (Called("equal") /\ Valid(x) /\ Valid(ArgVal)) =>
        /\ Returned
        /\ res.bool <=> (\/ x = ArgVal
                         \/ x.numerator = 0 /\ ArgVal.numerator = 0)
        /\ res.bool <=> equal(ArgVal, RationalArg(x)).bool

\* 0*pi equals 0*e
C8_Witness ==
    /\ Called("equal")
    /\ x = Rat(0, 1, 1, 0)
    /\ ArgVal = Rat(0, 1, 0, 1)
    /\ res.bool

\* C9: whenever plus, minus, times or divide returns a value (valid
\* operands, non-zero divisor), it is the exact result in lowest terms:
\* cross-multiplication with the common factors for plus and minus, factors
\* added for times and subtracted for divide.
C9_ExactArithmetic ==
    LET a == x
        b == ArgVal
    IN  (pc = "done" /\ Returned /\ Valid(a) /\ Valid(b)) =>
        /\ op = "plus" =>
               res.val = Normal(a.numerator * b.denominator
                                + b.numerator * a.denominator,
                                a.denominator * b.denominator,
                                a.piFactor, a.eFactor)
        /\ op = "minus" =>
               res.val = Normal(a.numerator * b.denominator
                                - b.numerator * a.denominator,
                                a.denominator * b.denominator,
                                a.piFactor, a.eFactor)
        /\ op = "times" =>
               res.val = Normal(a.numerator * b.numerator,
                                a.denominator * b.denominator,
                                a.piFactor + b.piFactor,
                                a.eFactor + b.eFactor)
        /\ (op = "divide" /\ b.numerator # 0) =>
               res.val = Normal(a.numerator * b.denominator,
                                a.denominator * b.numerator,
                                a.piFactor - b.piFactor,
                                a.eFactor - b.eFactor)

\* pi divided by -2pi is the symbol-free -1/2
C9_Witness ==
    /\ Called("divide") /\ Returned
    /\ x = Rat(1, 1, 1, 0)
    /\ ArgVal = Rat(-2, 1, 1, 0)
    /\ res.val = Rat(-1, 2, 0, 0)

\* an optional '-', then a digit run, 'pi' or 'e', or a digit run followed
\* by 'pi' or 'e'
IsToken(str) ==
    \E neg \in {<<>>, <<"-">>} :
        \E k \in 0..Len(str) :
            \E sym \in {<<>>, <<"p", "i">>, <<"e">>} :
                /\ Len(neg) + k + Len(sym) = Len(str)
                /\ k + Len(sym) > 0
                /\ str = neg \o SubSeq(str, Len(neg) + 1, Len(neg) + k) \o sym
                /\ \A i \in (Len(neg) + 1)..(Len(neg) + k) : str[i] \in Digits

\* the text is a token, or two tokens with a '/' between them
IsNumberText(str) ==
    \/ IsToken(str)
    \/ \E i \in 1..Len(str) :
           /\ str[i] = "/"
           /\ IsToken(SubSeq(str, 1, i - 1))
           /\ IsToken(SubSeq(str, i + 1, Len(str)))

\* C10: a string that is not a token (alone or on one side of "a/b") is
\* rejected with the invalid-value error.
C10_RejectsNonTokens ==
    (/\ Constructed
     /\ args.numerator.t = "str"
     /\ args.denominator = JSInt(1)
     /\ ~IsNumberText(args.numerator.s))
    => res.err = "InvalidValue"

\* the parts of a token: its sign, its symbol and the digits between them
TokenNegative(str) == str # <<>> /\ Head(str) = "-"
TokenBody(str) == IF TokenNegative(str) THEN Tail(str) ELSE str
EndsWith(str, suffix) ==
    /\ Len(str) >= Len(suffix)
    /\ SubSeq(str, Len(str) - Len(suffix) + 1, Len(str)) = suffix
TokenPi(str) == EndsWith(str, <<"p", "i">>)
TokenE(str) == EndsWith(str, <<"e">>)
TokenDigits(str) ==
    SubSeq(TokenBody(str), 1,
           Len(TokenBody(str)) - (IF TokenPi(str) THEN Len(<<"p", "i">>)
                                  ELSE IF TokenE(str) THEN Len(<<"e">>)
                                  ELSE 0))

\* the number a run of decimal digits denotes, most significant digit first
RECURSIVE DecimalValue(_)
DecimalValue(digits) ==
    IF digits = <<>> THEN 0
    ELSE DigitVal(Head(digits)) * Pow(10, Len(digits) - 1)
         + DecimalValue(Tail(digits))

\* the magnitude of a token: its digits, 1 when it has none
TokenMagnitude(str) ==
    IF TokenDigits(str) = <<>> THEN 1 ELSE DecimalValue(TokenDigits(str))

\* C11: a single token (-)?(digits)?(pi|e)? with digits or a symbol is
\* parsed to the signed digit value (magnitude 1 without digits) over the
\* denominator 1, with factor 1 of the symbol it names and 0 of the other.
C11_TokenParsed ==
    (/\ Constructed
     /\ args.numerator.t = "str"
     /\ args.denominator = JSInt(1)
     /\ IsToken(args.numerator.s))
    => res = Outcome("none",
                     Rat((IF TokenNegative(args.numerator.s) THEN -1 ELSE 1)
                         * TokenMagnitude(args.numerator.s),
                         1,
                         IF TokenPi(args.numerator.s) THEN 1 ELSE 0,
                         IF TokenE(args.numerator.s) THEN 1 ELSE 0))

\* new Rational("-2pi") is -2 pi
C11_Witness ==
    /\ Constructed
    /\ args.numerator = JSStr(<<"-", "2", "p", "i">>)
    /\ args.denominator = JSInt(1)
    /\ res = Outcome("none", Rat(-2, 1, 1, 0))

PiOf(sym) == IF sym = <<"p", "i">> THEN 1 ELSE 0
EOf(sym) == IF sym = <<"e">> THEN 1 ELSE 0

\* what new Rational(a, b, pf, ef) returns for integers
FromIntegers(a, b, pf, ef) == Rational(JSInt(a), JSInt(b), pf, ef, TRUE)

\* C12: for integers a and b # 0, Rational("<a>pi", b) and
\* Rational("<a>pi/<b>") return what Rational(a, b, 1) returns, field for
\* field (likewise for e); an explicit factor is added to the factor of the
\* numerator token, and the factor of the denominator token is subtracted.
C12_FormsEquivalent ==
    \A a, b \in TextInts : \A sym \in SymbolTexts :
        (/\ Constructed
         /\ b # 0)
        => /\ (\/ /\ args.numerator = JSStr(IntText(a) \o sym)
                  /\ args.denominator = JSInt(b)
               \/ /\ args.numerator
                       = JSStr(IntText(a) \o sym \o <<"/">> \o IntText(b))
                  /\ args.denominator = JSInt(1))
              => res = FromIntegers(a, b, args.piFactor + PiOf(sym),
                                    args.eFactor + EOf(sym))
           /\ (/\ args.numerator = JSInt(a)
               /\ args.denominator = JSStr(IntText(b) \o sym))
              => res = FromIntegers(a, b, args.piFactor - PiOf(sym),
                                    args.eFactor - EOf(sym))

\* new Rational("-2pi/2") is -pi, as new Rational(-2, 2, 1) is
C12_Witness ==
    /\ Constructed
    /\ args = Args(JSStr(<<"-", "2", "p", "i", "/", "2">>), JSInt(1), 0, 0)
    /\ res = Outcome("none", Rat(-1, 1, 1, 0))
    /\ res = FromIntegers(-2, 2, 1, 0)

\* C13: plus, minus, times, divide, power, abs, equal, greaterThan and
\* lessThan leave the fields of the receiver and of the argument as they
\* were, whether they return or fail, and what an arithmetic method returns
\* is a new object.
C13_Immutable ==
    [][(pc = "ready" /\ pc' = "done")
       => /\ x' = x
          /\ y' = y
          /\ (op' \in Arith /\ res'.err = "none") => res'.created]_vars

\* (-1/2).abs() returns 1/2 and the receiver is still -1/2
C13_Witness ==
    /\ Called("abs")
    /\ x = Rat(-1, 2, 0, 0)
    /\ res.err = "none"
    /\ res.val = Rat(1, 2, 0, 0)

\* the elements are number texts, and there is one at least
NumberTexts(elems) ==
    /\ Len(elems) >= 1
    /\ \A i \in 1..Len(elems) : IsNumberText(elems[i])

\* new Rational(t)
OfText(t) == Rational(JSStr(t), JSInt(1), 0, 0, TRUE)

\* C14: the tuple of "(t1, ..., tk)" has the Rational of ti as its i-th
\* element, length k and the approximations of the elements in their order,
\* and it is the tuple of the array [Rational(t1), ..., Rational(tk)].
C14_TupleOrder ==
    (/\ pc = "built"
     /\ op = "tuple-string"
     /\ args.shape = "tuple"
     /\ NumberTexts(args.elems))
    => /\ res.err = "none"
       /\ Len(res.val) = Len(args.elems)
       /\ res.length = Len(args.elems)
       /\ \A i \in 1..Len(args.elems) :
              /\ OfText(args.elems[i]).err = "none"
              /\ res.val[i] = OfText(args.elems[i]).val
              /\ res.approx[i] = approx(OfText(args.elems[i]).val,
                                        args.negZero[i])
       /\ res.val = RationalTupleOfArray(
                        [i \in 1..Len(args.elems) |->
                            OfText(args.elems[i]).val]).val

\* "(-2, 1/2, 2pi)" is the tuple -2, 1/2, 2 pi
C14_Witness ==
    /\ pc = "built"
    /\ op = "tuple-string"
    /\ args.text = <<"(", "-", "2", ",", " ", "1", "/", "2", ",", " ",
                     "2", "p", "i", ")">>
    /\ res.err = "none"
    /\ res.val = <<Rat(-2, 1, 0, 0), Rat(1, 2, 0, 0), Rat(2, 1, 1, 0)>>
    /\ res.length = 3

\* C15: a RationalTuple that construction returns, from a string or from
\* an array of Rationals, has two elements at least (the elements being
\* number texts).
C15_AtLeastTwo ==
    (/\ pc = "built"
     /\ op \in {"tuple-string", "tuple-array"}
     /\ \A i \in 1..Len(args.elems) : IsNumberText(args.elems[i])
     /\ res.err = "none")
    => res.length >= 2

\* the operators of the table and the argument counts the table allows
TableOperators == Operators \ {"arctan"}

AllowedCounts(action) ==
    CASE action \in {"plus", "times", "divide", "power"} -> {2}
      [] action \in {"minus", "root", "log"} -> {1, 2}
      [] action \in {"sin", "cos", "tan", "abs", "ln"} -> {1}

\* every argument of the <apply> compiles on its own
ArgumentsCompile ==
    \A i \in 1..Len(args.argNodes) :
        _parseNodeToFunction(args.argNodes[i], args.xval).err = "none"

\* C16: for every operator of the table (plus, times, divide, power: 2
\* arguments; minus, root, log: 1 or 2; sin, cos, tan, abs, ln: 1) applied to
\* arguments that compile, the <apply> compiles to a function when the
\* number of arguments is one the table allows, and fails with the arity
\* error when it is not.
C16_ArityEnforced ==
    (/\ pc = "built"
     /\ op \in TableOperators
     /\ ArgumentsCompile)
    => IF Len(args.argNodes) \in AllowedCounts(op)
       THEN res.err = "none"
       ELSE res.err = "ArityMismatch"

\* the value of the i-th argument at the number the function is run with
ArgumentValue(i) == _parseNodeToFunction(args.argNodes[i], args.xval).val

IsIndex(a) == a.kind = "num" /\ a.d = 1 /\ a.n > 0 /\ a.p = 0 /\ a.q = 0

\* C17: a <root> with one argument that compiles gives the function
\* computing the square root of the argument; with two arguments of which
\* the first is a positive integer n it gives the function computing the
\* n-th root of the second.
C17_Root ==
    (/\ pc = "built"
     /\ op = "root"
     /\ ArgumentsCompile)
    => /\ Len(args.argNodes) = 1
            => /\ res.err = "none"
               /\ res.exec = RealRoot(ArgumentValue(1), 2)
       /\ (Len(args.argNodes) = 2 /\ IsIndex(ArgumentValue(1)))
            => /\ res.err = "none"
               /\ res.exec = RealRoot(ArgumentValue(2), ArgumentValue(1).n)

\* the operators _parseApplyToRational evaluates
ExactOperators == {"plus", "minus", "times", "divide", "power"}

\* the number a Rational denotes: (numerator / denominator) pi^piFactor
\* e^eFactor
Denoted(r) ==
    IF r.denominator # 0
    THEN RealNum(r.numerator, r.denominator, r.piFactor, r.eFactor)
    ELSE IF r.numerator = 0 THEN RealNaN ELSE RealInf

VariableFree ==
    \A i \in 1..Len(args.argNodes) :
        args.argNodes[i].tagName \in {"cn", "pi", "exponentiale"}

\* C18: for an <apply> of plus, minus, times, divide or power to <cn>, <pi/>
\* and <exponentiale/> arguments, whenever the document compiles and its
\* exact evaluation succeeds, the number the compiled function returns is
\* the number the Rational denotes.
C18_Consistent ==
    (/\ pc = "built"
     /\ op \in ExactOperators
     /\ VariableFree
     /\ res.err = "none"
     /\ res.rational.err = "none")
    => res.exec = Denoted(res.rational.val)

\* the operators of the table that _parseApplyToRational does not evaluate
InexactOperators == TableOperators \ ExactOperators

\* an argument that has an exact value: <pi/>, <exponentiale/>, or a <cn>
\* whose number the Rational constructor accepts
ExactArgument(node) ==
    \/ node.tagName \in {"pi", "exponentiale"}
    \/ /\ node.tagName = "cn"
       /\ CnPattern(node.textContent)
       /\ Rational(parseFloat(node.textContent), JSInt(1), 0, 0,
                   args.fpExact).err = "none"

\* the first argument that has no exact value, 0 when all have one
FirstInexact ==
    IF \A i \in 1..Len(args.argNodes) : ExactArgument(args.argNodes[i]) THEN 0
    ELSE CHOOSE i \in 1..Len(args.argNodes) :
             /\ ~ExactArgument(args.argNodes[i])
             /\ \A j \in 1..(i - 1) : ExactArgument(args.argNodes[j])

C20_ExactRoot ==
    (/\ pc = "built"
     /\ op = "root"
     /\ Len(args.argNodes) = 2
     /\ args.argNodes[1].tagName = "degree"
     /\ args.argNodes[2].tagName = "cn"
     /\ IsIndex(ArgumentValue(1))
     /\ IsIndex(ArgumentValue(2))
     /\ IntRoot(ArgumentValue(2).n, ArgumentValue(1).n) > 0)
    => /\ res.rational.err = "none"
       /\ res.rational.val
            = Rat(IntRoot(ArgumentValue(2).n, ArgumentValue(1).n), 1, 0, 0)

\* the node is, or has below it at any depth, an element with the tag
RECURSIVE Contains(_, _)
Contains(node, tag) ==
    \/ node.tagName = tag
    \/ \E i \in 1..Len(node.childNodes) : Contains(node.childNodes[i], tag)

\* the document with a number in the place of every <ci>
RECURSIVE WithoutVariable(_)
WithoutVariable(node) ==
    IF node.tagName = "ci" THEN Cn(<<"1">>)
    ELSE Parent(node.tagName,
                [i \in 1..Len(node.childNodes) |->
                    WithoutVariable(node.childNodes[i])])

\* C21 as stated: the exact evaluation of every document with a <ci> at any
\* depth fails with the error the evaluation has for a <ci>.
C21_NoExactValue ==
    (pc = "tree" /\ Contains(args.root, "ci"))
    => res.plain.rational.err = "UnknownElement"

\* C21, amended: the exact evaluation of a document with a <ci> at any
\* depth never returns a value; it fails with the error of the <ci>
\* when the document compiles and nothing else in it fails (the document
\* with a number in the place of every <ci> has an exact value), and
\* otherwise with the error of whatever fails first.
C21_NeverExact ==
    (pc = "tree" /\ Contains(args.root, "ci"))
    => /\ res.plain.rational.err # "none"
       /\ (/\ res.plain.err = "none"
           /\ rational(WithoutVariable(args.root), args.xval,
                       args.fpExact).err = "none")
            => res.plain.rational.err = "UnknownElement"

\* the list of x + 2 and 2 compiles, and has no exact value
C21_Witness ==
    /\ pc = "tree"
    /\ args.root = Parent("list", <<Apply("plus", <<Ci(<<"x">>), Cn(<<"2">>)>>),
                                   Cn(<<"2">>)>>)
    /\ res.plain.err = "none"
    /\ res.plain.exec = RealList(<<RealInt(3), RealInt(2)>>)
    /\ res.plain.rational.err = "UnknownElement"

\* the names the documents use that the compiler does not know
UnknownNames == {"infinity", "arctan"}

\* the node is, or has at a place the compiler looks at (the children of an
\* <apply> or a <list>, the first child of a <degree> or a <logbase>), an
\* element with one of the tags
RECURSIVE Reaches(_, _)
Reaches(node, tags) ==
    \/ node.tagName \in tags
    \/ /\ node.tagName \in {"apply", "list"}
       /\ \E i \in 1..Len(node.childNodes) : Reaches(node.childNodes[i], tags)
    \/ /\ node.tagName \in {"degree", "logbase"}
       /\ Reaches(node.childNodes[1], tags)

\* the document with known names in the place of the unknown ones, at the
\* places the compiler looks at: a number for an element, the sine for an
\* operator; the text and what a <cn> holds are left as they are
RECURSIVE Known(_)
Known(node) ==
    IF node.tagName = "infinity" THEN Cn(<<"1">>)
    ELSE IF node.tagName = "arctan" THEN Empty("sin")
    ELSE IF node.tagName \in {"apply", "list"}
    THEN Parent(node.tagName,
                [i \in 1..Len(node.childNodes) |-> Known(node.childNodes[i])])
    ELSE IF node.tagName \in {"degree", "logbase"}
    THEN Parent(node.tagName,
                <<Known(Head(node.childNodes))>> \o Tail(node.childNodes))
    ELSE node

HasUnknown == \E tag \in UnknownNames : Contains(args.root, tag)

\* C22 as stated: constructing a MathML object from a document that has, at
\* any depth, an element or an operator the compiler does not know fails
\* with the error of the unknown element or operator.
C22_UnknownAnywhere ==
    (pc = "tree" /\ HasUnknown)
    => res.plain.err \in {"UnknownElement", "UnknownAction"}

\* C22, amended: constructing a MathML object from a document that has an
\* unknown element or operator at a place the compiler looks at fails, so
\* that neither getter can be used; the error is the one of the unknown
\* element or operator when nothing else fails (the document with known
\* names in their place compiles).
C22_UnknownReached ==
    (pc = "tree" /\ Reaches(args.root, UnknownNames))
    => /\ res.plain.err # "none"
       /\ res.plain.rational.err = res.plain.err
       /\ MathMLObject(Known(args.root), args.xval).err = "none"
            => res.plain.err \in {"UnknownElement", "UnknownAction"}

\* 2 + sin(infinity) is not constructed
C22_Witness ==
    /\ pc = "tree"
    /\ args.root
         = Apply("plus", <<Cn(<<"2">>), Apply("sin", <<Empty("infinity")>>)>>)
    /\ res.plain.err = "UnknownElement"

\* C27: a document written with white space between the child elements of
\* its <apply>, <degree>, <logbase> and <list> elements (indented as the
\* README's <list> is), or before its root element, gives the same outcome of
\* the construction, the same value of the compiled function and the same
\* exact value as the document written without white space.
C27_WhiteSpace ==
    pc = "written" => res.written = res.plain

\* ------------------------------------------------ step size (math-plot.js)
\* MathPlot lays the canvas out and chooses the distance between two unit
\* markers of an axis.  Lengths in pixels are fractions n/d of integers with
\* d > 0: the widths, gutters and range sizes drawn are integers, and a unit
\* size is their quotient.
MINSTEPSIZE == 40
LABELWIDTH == 15
LABELHEIGHT == 21
AXIS_ARROW_LENGTH == 10
GUTTER_LEFT == 30
GUTTER_RIGHT == 30
GUTTER_TOP == 20
GUTTER_BOTTOM == 20

\* Math.PI as a fraction; on the unit sizes drawn below, a pixel size
\* compares with MINSTEPSIZE as it does with Math.PI itself
PiNum == 355
PiDen == 113

\* the counter of a loop is a double, which i++ leaves unchanged once it is
\* 2^53; the model's counter stops at MaxCount
MaxCount == 30

Frac(n, d) == [n |-> n, d |-> d]
FracLess(a, b) == a.n * b.d < b.n * a.d
FracOfInt(n) == Frac(n, 1)

\* parseInt(this.getAttribute('gutter-...')) || GUTTER_...; attribute 0
\* stands for an attribute that is absent, empty or "0"
gutter(attribute, default) == IF attribute = 0 THEN default ELSE attribute

\* this.main.width and this.main.height of _initDerivedProperties; both axes
\* are drawn, the gutter attribute is gutter-left or gutter-top
main(axis, length, attribute) ==
    IF axis = "x"
    THEN (length - GUTTER_RIGHT - AXIS_ARROW_LENGTH - LABELWIDTH)
         - gutter(attribute, GUTTER_LEFT)
    ELSE (length - GUTTER_BOTTOM)
         - (gutter(attribute, GUTTER_TOP) + AXIS_ARROW_LENGTH + LABELHEIGHT)

\* this.unitSize.x = this.main.width / this.range.x.size
unitSize(axis, length, attribute, size) ==
    Frac(main(axis, length, attribute), size)

\* axis === 'x' && this.piUnits ? new Rational("pi") : new Rational(1)
baseStepSize(axis, piUnits) ==
    IF axis = "x" /\ piUnits THEN Rat(1, 1, 1, 0) ELSE Rat(1, 1, 0, 0)

\* unitSize * stepSize.approx, stepSize a Rational without a factor of e and
\* with a factor of pi of 0 or 1
stepSizePixels(unit, stepSize) ==
    Frac(unit.n * stepSize.numerator
           * (IF stepSize.piFactor = 1 THEN PiNum ELSE 1),
         unit.d * stepSize.denominator
           * (IF stepSize.piFactor = 1 THEN PiDen ELSE 1))

\* the variable i of a loop
Counter(i) == [i |-> i]

\* i++
Incremented(i) == IF i < MaxCount THEN i + 1 ELSE i

\* the two base steps, new Rational(1) and new Rational("pi")
BaseSteps == {Rat(1, 1, 0, 0), Rat(1, 1, 1, 0)}

\* baseStepSize.times(i) and baseStepSize.divide(i), tabulated over the base
\* steps and the values of a counter
multiples ==
    [base \in BaseSteps |->
        [i \in 0..MaxCount |-> times(base, NumberArg(JSInt(i)))]]
quotients ==
    [base \in BaseSteps |->
        [i \in 0..MaxCount |-> divide(base, NumberArg(JSInt(i)))]]

\* return baseStepSize.divide(i - 1), one candidate too far
returnLastTried(base, i) == quotients[base][i - 1]

\* return baseStepSize.divide(i - 2)
returnQuotient(base, i) == quotients[base][i - 2]

\* return baseStepSize.times(i - 1)
returnMultiple(base, i) == multiples[base][i - 1]

StepArgs(axis, piUnits, unit) ==
    [axis |-> axis, piUnits |-> piUnits, unitSize |-> unit,
     baseStepSize |-> baseStepSize(axis, piUnits)]

\* the branch _getStepSize takes on the pixel size of the base step
Branch(pixels) ==
    IF pixels.n = MINSTEPSIZE * pixels.d THEN "done"
    ELSE IF FracLess(pixels, FracOfInt(MINSTEPSIZE)) THEN "multiply"
    ELSE "divide"

\* _getStepSize(axis) up to its loops, for the unit size that
\* _initDerivedProperties computes from the attributes
Enter(stepArgs, pixels) ==
    /\ args' = stepArgs
    /\ y' = pixels
    /\ x' = Counter(2)
    /\ op' = "_getStepSize"
    /\ pc' = Branch(pixels)
    /\ res' = IF Branch(pixels) = "done"
              THEN Outcome("none", stepArgs.baseStepSize)
              ELSE NoResult

GetStepSize(axis, piUnits, length, attribute, size) ==
    /\ pc = "new"
    /\ Enter(StepArgs(axis, piUnits,
                      unitSize(axis, length, attribute, size)),
             stepSizePixels(unitSize(axis, length, attribute, size),
                            baseStepSize(axis, piUnits)))

\* one turn of for(var i = 2; stepSizePixels < MINSTEPSIZE; i++)
MultiplyTurn ==
    /\ pc = "multiply"
    /\ FracLess(y, FracOfInt(MINSTEPSIZE))
    /\ y' = stepSizePixels(args.unitSize,
                           multiples[args.baseStepSize][x.i].val)
    /\ x' = Counter(Incremented(x.i))
    /\ UNCHANGED <<pc, args, op, res>>

\* the loop is left: return baseStepSize.times(i - 1)
ReturnMultiple ==
    /\ pc = "multiply"
    /\ ~FracLess(y, FracOfInt(MINSTEPSIZE))
    /\ res' = returnMultiple(args.baseStepSize, x.i)
    /\ pc' = "done"
    /\ UNCHANGED <<x, y, args, op>>

\* one turn of for(var i = 2; stepSizePixels > MINSTEPSIZE; i++)
DivideTurn ==
    /\ pc = "divide"
    /\ FracLess(FracOfInt(MINSTEPSIZE), y)
    /\ y' = stepSizePixels(args.unitSize,
                           quotients[args.baseStepSize][x.i].val)
    /\ x' = Counter(Incremented(x.i))
    /\ UNCHANGED <<pc, args, op, res>>

\* the loop is left: return baseStepSize.divide(i - 2)
ReturnQuotient ==
    /\ pc = "divide"
    /\ ~FracLess(FracOfInt(MINSTEPSIZE), y)
    /\ res' = returnQuotient(args.baseStepSize, x.i)
    /\ pc' = "done"
    /\ UNCHANGED <<x, y, args, op>>

\* the width or height attribute of the canvas
Lengths == {40, 85, 90, 125, 165, 205, 300}
\* the gutter-left or gutter-top attribute
GutterAttributes == {0, 50}
\* this.range.x.size or this.range.y.size, positive by _parseRange
RangeSizes == 1..3

NextStep ==
    \/ pc = "new" /\ \E axis \in {"x", "y"}, piUnits \in BOOLEAN,
                        length \in Lengths, attribute \in GutterAttributes,
                        size \in RangeSizes :
           GetStepSize(axis, piUnits, length, attribute, size)
    \/ pc = "multiply" /\ MultiplyTurn
    \/ pc = "multiply" /\ ReturnMultiple
    \/ pc = "divide" /\ DivideTurn
    \/ pc = "divide" /\ ReturnQuotient

SpecStep == Init /\ [][NextStep]_vars

\* the browser runs the script to its end: a loop whose condition holds takes
\* its next turn
SpecStepFair == SpecStep /\ WF_vars(NextStep)

\* the steps base*n and base/n, n a positive integer
Candidates(base) ==
    {Rat(n, 1, base.piFactor, 0) : n \in 1..MaxCount}
    \cup {Rat(1, n, base.piFactor, 0) : n \in 1..MaxCount}

BigEnough(unit, stepSize) ==
    ~FracLess(stepSizePixels(unit, stepSize), FracOfInt(MINSTEPSIZE))

\* C23: for a positive unit size, _getStepSize returns the smallest of the
\* steps base*n and base/n (n a positive integer) whose size in pixels is at
\* least MINSTEPSIZE; a step base/n of exactly MINSTEPSIZE pixels is the one
\* returned.
C23_Smallest ==
    (pc = "done" /\ op = "_getStepSize" /\ args.unitSize.n > 0)
    => /\ res.err = "none"
       /\ res.val \in Candidates(args.baseStepSize)
       /\ BigEnough(args.unitSize, res.val)
       /\ \A c \in Candidates(args.baseStepSize) :
              BigEnough(args.unitSize, c)
              => res.val.numerator * c.denominator
                   <= c.numerator * res.val.denominator

\* C24: for a positive unit size, the step that _getStepSize returns is
\* base*n or base/n with n an integer of at least 1 (no division by zero),
\* and its size in pixels is not below MINSTEPSIZE.
C24_StepShape ==
    (pc = "done" /\ op = "_getStepSize" /\ args.unitSize.n > 0)
    => /\ res.err = "none"
       /\ res.val.piFactor = args.baseStepSize.piFactor
       /\ res.val.eFactor = 0
       /\ \/ res.val.denominator = 1 /\ res.val.numerator >= 1
          \/ res.val.numerator = 1 /\ res.val.denominator >= 1
       /\ BigEnough(args.unitSize, res.val)

\* 120 pixels per unit: the step is 1/2, of 60 pixels
C24_Witness ==
    /\ pc = "done"
    /\ op = "_getStepSize"
    /\ args.unitSize = Frac(120, 1)
    /\ res = Outcome("none", Rat(1, 2, 0, 0))

\* C25: the search of _getStepSize comes to an end for every unit size the
\* layout computes from the attributes, a main width of zero or less
\* included.
C25_Terminates == <>(pc = "done")

\* ----------------------------------------------------- adding a zero
\* A client that subtracts a Rational from itself and adds the difference to
\* another Rational, on either side.

\* a.minus(a) returning the zero without factors
minusItselfPlain(a) == Outcome("none", Rat(0, 1, 0, 0))

\* a.minus(a)
minusItself(a) == minus(a, RationalArg(a))

\* a.minus(a).plus(b)
zeroPlus(a, b) ==
    IF minusItself(a).err # "none" THEN minusItself(a)
    ELSE plus(minusItself(a).val, RationalArg(b))

\* b.plus(a.minus(a))
plusZero(a, b) == plusCoerced(b, minusItself(a))

\* x.minus(x).plus(y)
ZeroPlus == y.inst /\ Call("zeroPlus", zeroPlus(x, y.r))

\* y.plus(x.minus(x))
PlusZero == y.inst /\ Call("plusZero", plusZero(x, y.r))

NextZero ==
    \/ pc = "new" /\ \E n, d \in IntInputs :
           \E pf, ef \in FactorInputs : Construct(n, d, pf, ef)
    \/ pc = "arg" /\ \E n, d \in IntInputs :
           \E pf, ef \in FactorInputs : ConstructArg(n, d, pf, ef)
    \/ pc = "ready" /\ ZeroPlus
    \/ pc = "ready" /\ PlusZero
    \/ pc = "built" /\ Store

SpecZero == Init /\ [][NextZero]_vars

AddsZero == pc = "done" /\ op \in {"zeroPlus", "plusZero"}

\* C29: for all Rationals a and b, a.minus(a).plus(b) and b.plus(a.minus(a))
\* succeed and equal b, whatever factors of pi and e a and b carry.
C29_AdditiveIdentity ==
    AddsZero => res.err = "none" /\ equalRational(res.val, y.r).bool

\* C29, amended: a.minus(a).plus(b) and b.plus(a.minus(a)) succeed and equal
\* b when a and b carry the same factors of pi and e, and fail with the
\* error of adding different symbols when they do not: the zero that
\* a.minus(a) returns keeps the factors of a.  With an object of zero
\* denominator for a, or the object 0/0 for b, they fail on the value.
C29_SameFactors ==
    AddsZero
    => IF IsNaN(x) THEN res.err = "InvalidValue"
       ELSE IF ~SameFactors(x, y.r) THEN res.err = "IncompatibleSymbol"
       ELSE IF x.denominator = 0 \/ IsNaN(y.r) THEN res.err = "InvalidValue"
       ELSE res = Outcome("none", y.r)

\* (pi - pi) + 2pi is 2pi
C29_Witness ==
    /\ pc = "done"
    /\ op = "zeroPlus"
    /\ x = Rat(1, 1, 1, 0)
    /\ y.r = Rat(2, 1, 1, 0)
    /\ res = Outcome("none", Rat(2, 1, 1, 0))

\* ------------------------------------------- decimals over a denominator
\* the denominators of the decimals handed to the constructor
DecimalDenominators == {2, 4, 5, 10}

\* the numbers p/q that are not integers: decimals of one or two digits
Decimals ==
    {JSFrac(pq[1], pq[2]) :
        pq \in {pq \in IntInputs \X DecimalDenominators : pq[1] % pq[2] # 0}}

\* new Rational(x, d), x a decimal and d an integer
ConstructDecimal(numerator, d, fpExact) ==
    /\ pc = "new"
    /\ res' = Rational(numerator, JSInt(d), 0, 0, fpExact)
    /\ args' = [numerator |-> numerator, denominator |-> JSInt(d),
                piFactor |-> 0, eFactor |-> 0, fpExact |-> fpExact]
    /\ op' = "construct"
    /\ pc' = "built"
    /\ UNCHANGED <<x, y>>

NextDecimal ==
    pc = "new" /\ \E numerator \in Decimals :
        \E d \in IntInputs \ {0} : \E fpExact \in BOOLEAN :
            ConstructDecimal(numerator, d, fpExact)

SpecDecimal == Init /\ [][NextDecimal]_vars

\* C28: new Rational(x, d), x a decimal that is not an integer and d an
\* integer other than 0, is the Rational of value x/d: the denominator handed
\* over is not discarded.
C28_KeepsDenominator ==
    (pc = "built" /\ op = "construct" /\ args.numerator.t = "frac")
    => /\ res.err = "none"
       /\ res.val.piFactor = 0
       /\ res.val.eFactor = 0
       /\ res.val.numerator * args.numerator.q * args.denominator.p
            = args.numerator.p * res.val.denominator

\* ------------------------------------------------- ranges (math-plot.js)
\* the elements a range is written with, in the order of their values: as
\* the text of a tuple's element and as the node of a <list>'s
RangeElements ==
    <<[text |-> <<"-", "2">>, node |-> Cn(<<"-", "2">>)],
      [text |-> <<"-", "1">>, node |-> Cn(<<"-", "1">>)],
      [text |-> <<"0">>, node |-> Cn(<<"0">>)],
      [text |-> <<"1">>, node |-> Cn(<<"1">>)],
      [text |-> <<"2">>, node |-> Cn(<<"2">>)],
      [text |-> <<"p", "i">>, node |-> Empty("pi")],
      [text |-> <<"2", "p", "i">>,
       node |-> Apply("times", <<Cn(<<"2">>), Empty("pi")>>)]>>

\* el.approx as the real number it is; no element drawn has a zero
\* denominator
approxOfElement(el) ==
    RealNum(el.numerator, el.denominator, el.piFactor, el.eFactor)

\* a < b on two numbers of a list, neither infinite
RealLess(a, b) ==
    /\ a.kind = "num"
    /\ b.kind = "num"
    /\ NumberLess(approx(Rat(a.n, a.d, a.p, a.q), FALSE),
                  approx(Rat(b.n, b.d, b.p, b.q), FALSE))

ListOutcome(e, list) == [err |-> e, val |-> list]

\* Rational.parseTuple(listStr).map(el => el.approx)
parseTupleApprox(out) ==
    IF out.err # "none" THEN ListOutcome(out.err, <<>>)
    ELSE ListOutcome("none",
                     [i \in 1..Len(out.val) |-> approxOfElement(out.val[i])])

\* new MathML(listStr).exec(0)
execList(out) ==
    IF out.err # "none" THEN ListOutcome(out.err, <<>>)
    ELSE ListOutcome("none", out.val.elems)

\* _parseList(listStr), listStr the text of a tuple
_parseListOfTuple(listStr) == parseTupleApprox(RationalTupleOfString(listStr))

\* _parseList(listStr), listStr a <list> of these nodes
_parseListOfMathML(nodes) == execList(MathMLObject(Parent("list", nodes), 0))

Range(min, max) ==
    [err |-> "none", min |-> min, max |-> max,
     size |-> RealPlus(max, RealNeg(min))]
NoRange(e) == [err |-> e, min |-> RealZero, max |-> RealZero, size |-> RealZero]

\* _parseRange accepting equal bounds
parseRangeOrEqual(rangeList) ==
    IF rangeList.err # "none" THEN NoRange(rangeList.err)
    ELSE IF /\ Len(rangeList.val) = 2
            /\ ~RealLess(rangeList.val[2], rangeList.val[1])
    THEN Range(rangeList.val[1], rangeList.val[2])
    ELSE NoRange("InvalidRange")

\* _parseRange after its call of _parseList
parseRange(rangeList) ==
    IF rangeList.err # "none" THEN NoRange(rangeList.err)
    ELSE IF /\ Len(rangeList.val) = 2
            /\ RealLess(rangeList.val[1], rangeList.val[2])
    THEN Range(rangeList.val[1], rangeList.val[2])
    ELSE NoRange("InvalidRange")

\* the places in RangeElements of the elements of a range
RangeLists == SeqsUpTo(1..Len(RangeElements), MaxTuple)

RangeArgs(form, elems) == [form |-> form, elems |-> elems]

\* this._parseRange("(a, b, ...)")
RangeOfTuple(elems, sep) ==
    /\ pc = "new"
    /\ args' = RangeArgs("tuple", elems)
    /\ res' = parseRange(_parseListOfTuple(
                  TupleText([i \in 1..Len(elems) |-> RangeElements[elems[i]].text],
                            sep, "tuple")))
    /\ op' = "_parseRange"
    /\ pc' = "built"
    /\ UNCHANGED <<x, y>>

\* this._parseRange("<list>...</list>")
RangeOfMathML(elems) ==
    /\ pc = "new"
    /\ args' = RangeArgs("list", elems)
    /\ res' = parseRange(_parseListOfMathML(
                  [i \in 1..Len(elems) |-> RangeElements[elems[i]].node]))
    /\ op' = "_parseRange"
    /\ pc' = "built"
    /\ UNCHANGED <<x, y>>

NextRange ==
    \/ pc = "new" /\ \E elems \in RangeLists \ {<<>>} :
           \E sep \in {<<",">>, <<",", " ">>} : RangeOfTuple(elems, sep)
    \/ pc = "new" /\ \E elems \in RangeLists : RangeOfMathML(elems)

SpecRange == Init /\ [][NextRange]_vars

\* C26: _parseRange returns {min, max, size} for a list of exactly two values
\* of which the first is less than the second, and for every other list (of
\* one or three elements, of equal or decreasing bounds) fails with 'Invalid
\* range provided.', the list being written as a tuple or as a <list>.
C26_RangeValidated ==
    (pc = "built" /\ op = "_parseRange")
    => IF Len(args.elems) = 2 /\ args.elems[1] < args.elems[2]
       THEN /\ res.err = "none"
            /\ res.min
                 = MathMLObject(RangeElements[args.elems[1]].node, 0).val
            /\ res.max
                 = MathMLObject(RangeElements[args.elems[2]].node, 0).val
            /\ res.size.kind \in {"num", "other"}
            /\ ~IsZero(res.size)
       ELSE res.err = "InvalidRange"

\* the range (0, 2pi)
C26_Witness ==
    /\ pc = "built"
    /\ op = "_parseRange"
    /\ args = RangeArgs("tuple", <<3, 7>>)
    /\ res = [err |-> "none", min |-> RealZero, max |-> RealNum(2, 1, 1, 0),
              size |-> RealNum(2, 1, 1, 0)]

\* ---------------------------------------------- unit markers (math-plot.js)
\* drawAxes marks an axis at the multiples of its step that lie in the draw
\* region.  The bounds of the region are integers here.

\* a Rational's numerator is not taken beyond MaxTick by the model
MaxTick == 8

\* the texts of the step-x and step-y attributes
StepTexts ==
    {<<"1">>, <<"2">>, <<"1", "/", "2">>, <<"p", "i">>,
     <<"p", "i", "/", "2">>, <<"-", "1">>, <<"-", "1", "/", "2">>, <<"0">>}

\* this.drawRegion.left or .bottom, and .right or .top
LowerBounds == (-3)..0
UpperBounds == 1..3

\* _parseNumberToRational(numStr), numStr not MathML
_parseNumberToRational(numStr) == Rational(JSStr(numStr), JSInt(1), 0, 0, TRUE)

\* Math.ceil(a / b), b # 0
Ceil(a, b) == IF b > 0 THEN -((-a) \div b) ELSE -(a \div (-b))

\* Math.ceil(lower / stepSize.approx), stepSize without a factor of e and
\* with a factor of pi of 0 or 1: a division by 0 gives an infinity, or NaN
\* for 0 / 0
ceilOfQuotient(lower, stepSize) ==
    IF stepSize.numerator = 0
    THEN IF lower = 0 THEN JSNaN ELSE JSInf
    ELSE JSInt(Ceil(lower * stepSize.denominator
                      * (IF stepSize.piFactor = 1 THEN PiDen ELSE 1),
                    stepSize.numerator
                      * (IF stepSize.piFactor = 1 THEN PiNum ELSE 1)))

\* let i = stepSize.times(Math.ceil(lower / stepSize.approx))
firstMarker(stepSize, lower) ==
    times(stepSize, NumberArg(ceilOfQuotient(lower, stepSize)))

TickArgs(stepSize, lower, upper) ==
    [stepSize |-> stepSize, lower |-> lower, upper |-> upper]

Markers(e, drawn) == [err |-> e, drawn |-> drawn]

\* if(this.drawXUnits) { let stepSize = this.stepX; let i = ...
DrawUnits(numStr, lower, upper) ==
    /\ pc = "new"
    /\ _parseNumberToRational(numStr).err = "none"
    /\ args' = TickArgs(_parseNumberToRational(numStr).val, lower, upper)
    /\ op' = "drawAxes"
    /\ y' = NoArg
    /\ IF firstMarker(_parseNumberToRational(numStr).val, lower).err = "none"
       THEN /\ x' = firstMarker(_parseNumberToRational(numStr).val, lower).val
            /\ res' = Markers("none", <<>>)
            /\ pc' = "loop"
       ELSE /\ x' = x
            /\ res' = Markers(
                   firstMarker(_parseNumberToRational(numStr).val, lower).err,
                   <<>>)
            /\ pc' = "failed"

\* if(!(i.equal(0))) { ... i.draw(...) }
drawn(markers, i) ==
    IF equal(i, NumberArg(JSInt(0))).bool THEN markers
    ELSE Markers("none", Append(markers.drawn, i))

\* one turn of for(; i.lessThan(upper); i = i.plus(stepSize))
Tick ==
    /\ pc = "loop"
    /\ lessThan(x, NumberArg(JSInt(args.upper)), FALSE, FALSE).bool
    /\ Abs(plus(x, RationalArg(args.stepSize)).val.numerator) <= MaxTick
    /\ res' = drawn(res, x)
    /\ x' = plus(x, RationalArg(args.stepSize)).val
    /\ UNCHANGED <<pc, y, args, op>>

\* the loop is left
LeaveTicks ==
    /\ pc = "loop"
    /\ ~lessThan(x, NumberArg(JSInt(args.upper)), FALSE, FALSE).bool
    /\ pc' = "done"
    /\ UNCHANGED <<x, y, args, op, res>>

NextTick ==
    \/ pc = "new" /\ \E numStr \in StepTexts :
           \E lower \in LowerBounds, upper \in UpperBounds :
               DrawUnits(numStr, lower, upper)
    \/ pc = "loop" /\ Tick
    \/ pc = "loop" /\ LeaveTicks

SpecTick == Init /\ [][NextTick]_vars

\* i is k times stepSize for an integer k
IsMultiple(i, stepSize) ==
    \E k \in (-MaxTick)..MaxTick :
        times(stepSize, NumberArg(JSInt(k))) = Outcome("none", i)

\* lower <= i < upper
InRegion(i, lower, upper) ==
    /\ ~lessThan(i, NumberArg(JSInt(lower)), FALSE, FALSE).bool
    /\ lessThan(i, NumberArg(JSInt(upper)), FALSE, FALSE).bool

\* C30: for every step accepted from the step-x and step-y attributes, the
\* negative ones included, every marker the loop of drawAxes draws is an
\* exact multiple of the step other than 0 that lies in [lower, upper), and
\* the loop comes to its end.
C30_Markers ==
    (op = "drawAxes" /\ pc \in {"loop", "done"})
    => \A j \in 1..Len(res.drawn) :
          /\ IsMultiple(res.drawn[j], args.stepSize)
          /\ res.drawn[j].numerator # 0
          /\ InRegion(res.drawn[j], args.lower, args.upper)

====
